---- MODULE Spec2Model ----
(***************************************************************************)
(* BME680 air-quality subsystem of edge-wasi-runtime.                      *)
(*                                                                         *)
(* Two programs of the repository carry the logic:                         *)
(*   - the WASM plugin  src/plugins/bme680/app.py   (node "pi4")           *)
(*   - the native service src/pizero-native/pizero_service.py ("pizero")   *)
(* A run of the model is a run of one of them; `node` says which.          *)
(*                                                                         *)
(* Numbers.  Python floats are modelled as follows:                        *)
(*   - gas resistance and gas_baseline: fixed point, Resolution units per  *)
(*     kOhm (the decay 0.995*b + 0.005*g is rounded down to that grid);    *)
(*   - humidity: whole percent;                                            *)
(*   - gas_score, hum_score and their scaled sum: exact fractions [n, d],  *)
(*     so that int() truncates the exact value.                            *)
(***************************************************************************)
EXTENDS Integers, Sequences, FiniteSets, TLC

VARIABLES
    node,            \* which program runs: "pi4" (plugin) or "pizero" (native)
    driver,          \* plugin global `driver`: NoDriver or the BME680Driver
    gas_baseline,    \* plugin global
    burn_in_count,   \* plugin global
    gas_history,     \* plugin global
    bad_iaq_alarm,   \* plugin global
    bme,             \* the native BME680 instance (its fields)
    bme2,            \* a second native BME680 instance (another address)
    pc,              \* where each worker stands inside a poll it runs
    dht,             \* DHT22 plugin: its four alarm flags (module globals)
    fan,             \* pi4-monitor plugin: the fan relay behind fan_controller
    oled,            \* OLED plugin: its globals _initialized and _buffer
    out,             \* what the last operation did and returned
    hist             \* history of the run (observations, not program state)

vars == <<node, driver, gas_baseline, burn_in_count, gas_history,
          bad_iaq_alarm, bme, bme2, pc, dht, fan, oled, out, hist>>

(***************************************************************************)
(* Bounds of the model.                                                    *)
(***************************************************************************)
\* polls that produce a reading, per run
MaxPolls == 14

(***************************************************************************)
(* Program constants.                                                      *)
(***************************************************************************)
BURN_IN == 12             \* `if burn_in_count < 12`
HISTORY_LEN == 5          \* `if len(gas_history) > 5`
STATUS_ATTEMPTS == 50     \* `for _ in range(50)`
CHIP_ID_BME680 == 97      \* 0x61
IAQ_MAX == 500            \* `min(500, max(0, iaq))`
ALARM_RAISE == 200        \* `elif iaq <= 200 ... else` (worst band)
ALARM_CLEAR == 180        \* `if iaq <= 180 and bad_iaq_alarm`
GAS_SCORE_MAX == 75
HUM_SCORE_MAX == 25
NEUTRAL_GAS_SCORE == 25   \* `gas_score = 25  # Unknown, assume moderate`
IDEAL_HUMIDITY == 40
IAQ_SCALE == 3            \* `* 3.0`
DATA_MIN_LEN == 15        \* `len(data) < 15`
GAS_CEILING_KOHM == 1000  \* `min(gas, 1000.0)`
\* fixed-point units per kOhm used for the float gas values
Resolution == 100

(***************************************************************************)
(* Arithmetic helpers.                                                     *)
(***************************************************************************)
Min(a, b) == IF a < b THEN a ELSE b
Max(a, b) == IF a > b THEN a ELSE b
Abs(a) == IF a < 0 THEN -a ELSE a

\* exact fractions n/d with d > 0
Frac(n, d) == [n |-> n, d |-> d]
FInt(k) == Frac(k, 1)
FLe(a, b) == a.n * b.d <= b.n * a.d
FLt(a, b) == a.n * b.d < b.n * a.d
FEq(a, b) == a.n * b.d = b.n * a.d
FMin(a, b) == IF FLt(b, a) THEN b ELSE a      \* Python min(a, b)
FMax(a, b) == IF FLt(a, b) THEN b ELSE a      \* Python max(a, b)
FAdd(a, b) == Frac(a.n * b.d + b.n * a.d, a.d * b.d)
FScale(a, k) == Frac(a.n * k, a.d)
\* Python int(): truncation toward zero
FTrunc(a) == IF a.n >= 0 THEN a.n \div a.d ELSE -((-a.n) \div a.d)
\* round half up (equal to Python round() away from exact halves)
FRound(a) == (2 * a.n + a.d) \div (2 * a.d)

\* bit operations on bytes
Shr(x, k) == x \div (2 ^ k)
Shl(x, k) == x * (2 ^ k)
RECURSIVE BitAnd(_, _)
BitAnd(x, y) ==
    IF x = 0 \/ y = 0 THEN 0
    ELSE (IF x % 2 = 1 /\ y % 2 = 1 THEN 1 ELSE 0) + 2 * BitAnd(x \div 2, y \div 2)
RECURSIVE BitOr(_, _)
BitOr(x, y) ==
    IF x = 0 THEN y
    ELSE IF y = 0 THEN x
    ELSE (IF x % 2 = 1 \/ y % 2 = 1 THEN 1 ELSE 0) + 2 * BitOr(x \div 2, y \div 2)

(***************************************************************************)
(* The device and the bus, as the drivers see them.                        *)
(***************************************************************************)
\* what the chip-id register 0xD0 of the device on the bus may hold
ChipIds == {CHIP_ID_BME680, 0}

\* bus behaviour during BME680Driver._load_calibration: one outcome for each
\* of its four block reads (0xE9, 0x8A, 0xE1, 0xE4), "ok" (all bytes), "short"
\* (too few bytes) or "err" (the transfer raises)
CalBusOk == <<"ok", "ok", "ok", "ok">>
CalBusScenarios == { CalBusOk, <<"ok", "ok", "ok", "err">> }

\* register addresses
REG_CHIP_ID == 208     \* 0xD0
REG_T1 == 233          \* 0xE9
REG_T23 == 138         \* 0x8A
REG_H1 == 225          \* 0xE1
REG_H2 == 228          \* 0xE4
REG_P1 == 142          \* 0x8E
REG_P2 == 158          \* 0x9E

\* the status read (1-based) from which bit 7 (new data) is set; a value
\* above STATUS_ATTEMPTS means the bit is never seen within the budget
StatusReadyAt == {1, STATUS_ATTEMPTS, STATUS_ATTEMPTS + 1}
\* the values other than "at once", tried with one sample
StatusReadyLate == StatusReadyAt \ {1}

\* <<data[13], data[14]>>: gas MSB and the gas LSB/status/range byte
GasBytes ==
    { <<0, 48>>,       \* 0x30: valid, stable, raw_gas = 0
      <<1, 48>>,       \* raw_gas = 4
      <<4, 48>>,       \* raw_gas = 16
      <<4, 0>>,        \* neither status bit set
      <<4, 16>> }      \* 0x10: heater stable, gas not valid

\* value of the humidity compensation formula before the clamp, in percent
HumFormulaOut == {-7, 40, 55, 131}

\* raw 20-bit temperature code of a sample
RawTemps == {500000}

(***************************************************************************)
(* WASM plugin: BME680Driver.                                              *)
(***************************************************************************)
NoDriver == [present |-> FALSE]

CalDefaults == [t |-> "default", h |-> "default"]

\* BME680Driver._load_calibration: the calibration it leaves in self.cal
\* (per coefficient group: read from the device, or the hard-coded default)
\* and the registers it read, for the bus outcomes sc.
LoadCalibration(sc) ==
    IF sc[1] = "err" THEN [cal |-> CalDefaults, regs |-> <<REG_T1>>]
    ELSE IF sc[2] = "err" THEN [cal |-> CalDefaults, regs |-> <<REG_T1, REG_T23>>]
    ELSE
      LET t == IF sc[1] = "ok" /\ sc[2] = "ok" THEN "device" ELSE "default" IN
      IF sc[3] = "err"
        THEN [cal |-> CalDefaults, regs |-> <<REG_T1, REG_T23, REG_H1>>]
      ELSE IF sc[4] = "err"
        THEN [cal |-> CalDefaults, regs |-> <<REG_T1, REG_T23, REG_H1, REG_H2>>]
      ELSE
        [cal |-> [t |-> t,
                  h |-> IF sc[3] = "ok" /\ sc[4] = "ok" THEN "device" ELSE "default"],
         regs |-> <<REG_T1, REG_T23, REG_H1, REG_H2>>]

\* BME680Driver.__init__: no chip-id read; calibration, then configuration
\* (whose bus errors are swallowed and leave nothing in the driver)
NewDriver(sc) ==
    LET c == LoadCalibration(sc) IN
    [present |-> TRUE, cal |-> c.cal, t_fine_of |-> 0, init_regs |-> c.regs]

\* status byte returned by the k-th status read
StatusByte(k, ready_at) == IF k >= ready_at THEN 128 ELSE 0

\* the loop `for _ in range(50): status = read(0x1D); if status & 0x80: break`
\* from attempt k on: how many status reads were made, and whether the
\* new-data bit was seen
RECURSIVE StatusLoop(_, _)
StatusLoop(k, ready_at) ==
    IF k > STATUS_ATTEMPTS THEN [reads |-> k - 1, seen |-> FALSE]
    ELSE IF BitAnd(StatusByte(k, ready_at), 128) # 0
      THEN [reads |-> k, seen |-> TRUE]
      ELSE StatusLoop(k + 1, ready_at)

\* gas decode of the plugin: `gas_status = data[14] & 0x30; if gas_status:
\* raw_gas = (data[13] << 2) | (data[14] >> 6); gas = raw_gas * 2.5`
PluginGas(d13, d14) ==
    IF BitAnd(d14, 48) # 0
      THEN (BitOr(Shl(d13, 2), Shr(d14, 6)) * 5 * Resolution) \div 2
      ELSE 0

\* mutant: the lower clamp is missing
PluginClampHumidity_NoFloor(h) == IF h > 100 THEN 100 ELSE h

\* the humidity clamp `if humidity > 100: 100 elif humidity < 0: 0`
PluginClampHumidity(h) == IF h > 100 THEN 100 ELSE IF h < 0 THEN 0 ELSE h

NoReading(reads, seen) ==
    [ok |-> FALSE, status_reads |-> reads, new_data |-> seen,
     decoded |-> FALSE, gas |-> 0, humidity |-> 0, t_fine_of |-> 0]

\* BME680Driver.get_readings for the inputs in
GetReadings(in) ==
    IF in.bus = "trigger" THEN NoReading(0, FALSE)
    ELSE IF in.bus = "status" THEN NoReading(1, FALSE)
    ELSE
      LET st == StatusLoop(1, in.ready_at) IN
      IF in.bus = "data" THEN NoReading(st.reads, st.seen)
      ELSE IF in.data_len = 0 \/ in.data_len < DATA_MIN_LEN
        THEN NoReading(st.reads, st.seen)
      ELSE
        [ok |-> TRUE, status_reads |-> st.reads, new_data |-> st.seen,
         decoded |-> TRUE,
         gas |-> PluginGas(in.d13, in.d14),
         humidity |-> PluginClampHumidity(in.hum),
         t_fine_of |-> in.raw_temp]

(***************************************************************************)
(* WASM plugin: the IAQ logic inside Bme680Logic.poll.                     *)
(***************************************************************************)
\* mutant: the newest entry is dropped instead of the oldest
PushHistory_KeepsOldest(h, gas) ==
    LET a == Append(h, gas) IN
    IF Len(a) > 5 THEN SubSeq(a, 1, 5) ELSE a

\* `gas_history.append(gas); if len(gas_history) > 5: gas_history.pop(0)`
PushHistory(h, gas) ==
    LET a == Append(h, gas) IN
    IF Len(a) > HISTORY_LEN THEN Tail(a) ELSE a

\* `gas_baseline * 0.995 + gas * 0.005`, on the fixed-point grid
Decay(b, gas) == (b * 995 + gas * 5) \div 1000

\* mutant: the fallback is taken for a zero baseline only
PluginGasScore_NoGasGuard(b, gas) ==
    IF b > 0
      THEN LET gas_score == IF gas >= b
                              THEN FInt(0)
                              ELSE Frac((b - gas) * GAS_SCORE_MAX, b)
           IN FMax(FInt(0), FMin(FInt(GAS_SCORE_MAX), gas_score))
      ELSE FInt(NEUTRAL_GAS_SCORE)

\* the gas score of the plugin, from the updated baseline b
PluginGasScore(b, gas) ==
    IF b > 0 /\ gas > 0
      THEN LET gas_score == IF gas >= b          \* gas_ratio >= 1.0
                              THEN FInt(0)
                              ELSE Frac((b - gas) * GAS_SCORE_MAX, b)
           IN FMax(FInt(0), FMin(FInt(GAS_SCORE_MAX), gas_score))
      ELSE FInt(NEUTRAL_GAS_SCORE)

\* mutant: the deviation is taken without abs()
PluginHumScore_NoAbs(humidity) ==
    FMin(FInt(HUM_SCORE_MAX), Frac((humidity - IDEAL_HUMIDITY) * 25, 60))

\* `hum_offset = abs(humidity - 40.0); min(25, (hum_offset / 60.0) * 25.0)`
PluginHumScore(humidity) ==
    FMin(FInt(HUM_SCORE_MAX), Frac(Abs(humidity - IDEAL_HUMIDITY) * 25, 60))

\* mutant: round() in place of int()
PluginComposite_Rounds(gas_score, hum_score) ==
    Min(IAQ_MAX, Max(0, FRound(FScale(FAdd(gas_score, hum_score), IAQ_SCALE))))

\* `iaq = int((gas_score + hum_score) * 3.0); iaq = min(500, max(0, iaq))`
PluginComposite(gas_score, hum_score) ==
    Min(IAQ_MAX, Max(0, FTrunc(FScale(FAdd(gas_score, hum_score), IAQ_SCALE))))

\* the band of a score
StatusLabel(iaq) ==
    IF iaq <= 50 THEN "Excellent"
    ELSE IF iaq <= 100 THEN "Good"
    ELSE IF iaq <= 150 THEN "Moderate"
    ELSE IF iaq <= ALARM_RAISE THEN "Poor"
    ELSE "Bad"

\* mutant: level-triggered, a beep on every poll in the worst band
PluginBeeps_Level(iaq, alarm) == iaq > ALARM_RAISE

\* the buzzer call in the worst band: `else: ... if not bad_iaq_alarm: beep`
PluginBeeps(iaq, alarm) == iaq > ALARM_RAISE /\ ~alarm

\* mutant: no deadband, the alarm clears as soon as the score leaves the
\* worst band
PluginAlarmAfter_NoDeadband(iaq, alarm) ==
    LET raised == IF iaq > ALARM_RAISE THEN TRUE ELSE alarm IN
    IF iaq <= ALARM_RAISE /\ raised THEN FALSE ELSE raised

\* mutant: the flag is raised but never cleared
PluginAlarmAfter_NoClear(iaq, alarm) == IF iaq > 200 THEN TRUE ELSE alarm

\* the alarm flag after the band code and `if iaq <= 180 and bad_iaq_alarm`
PluginAlarmAfter(iaq, alarm) ==
    LET raised == IF iaq > ALARM_RAISE THEN TRUE ELSE alarm IN
    IF iaq <= ALARM_CLEAR /\ raised THEN FALSE ELSE raised

\* mutant: off by one, the 12th reading is still calibrating
PluginCalibrating_OffByOne(count) == count <= BURN_IN

\* the calibration gate `if burn_in_count < 12`, on the incremented count
PluginCalibrating(count) == count < BURN_IN

\* mutant: the baseline follows the last reading instead of the largest
PluginCalibBaseline_Last(b, gas) == gas

\* the baseline in the calibration phase:
\* `if gas > gas_baseline: gas_baseline = gas`
PluginCalibBaseline(b, gas) == IF gas > b THEN gas ELSE b

\* mutant: the two weights of the decay are swapped
PluginActiveBaseline_Swapped(b, gas) ==
    IF gas > b THEN gas ELSE (b * 5 + gas * 995) \div 1000

\* mutant: the baseline only drifts, a higher reading does not replace it
PluginActiveBaseline_DecayOnly(b, gas) == (b * 995 + gas * 5) \div 1000

\* the baseline update of the Active branch: `if gas > gas_baseline:
\* gas_baseline = gas else: gas_baseline = gas_baseline * 0.995 + gas * 0.005`
PluginActiveBaseline(b, gas) == IF gas > b THEN gas ELSE Decay(b, gas)

\* lines 241-311 of poll: the globals after a reading (gas, humidity) and
\* what is reported, `calibrating` being the outcome of the gate
PluginIaqGated(st, gas, humidity, calibrating) ==
    LET count == st.burn_in_count + 1
        history == PushHistory(st.gas_history, gas)
    IN
    IF calibrating
      THEN [gas_baseline |-> PluginCalibBaseline(st.gas_baseline, gas),
            burn_in_count |-> count,
            gas_history |-> history,
            bad_iaq_alarm |-> st.bad_iaq_alarm,
            iaq |-> 0, accuracy |-> 0, phase |-> "Calibrating",
            gas_score |-> FInt(0), hum_score |-> FInt(0), hum_offset |-> 0,
            beep |-> FALSE]
      ELSE
        LET b == PluginActiveBaseline(st.gas_baseline, gas)
            gas_score == PluginGasScore(b, gas)
            hum_score == PluginHumScore(humidity)
            iaq == PluginComposite(gas_score, hum_score)
        IN [gas_baseline |-> b,
            burn_in_count |-> count,
            gas_history |-> history,
            bad_iaq_alarm |-> PluginAlarmAfter(iaq, st.bad_iaq_alarm),
            iaq |-> iaq, accuracy |-> 1, phase |-> StatusLabel(iaq),
            gas_score |-> gas_score, hum_score |-> hum_score,
            hum_offset |-> Abs(humidity - IDEAL_HUMIDITY),
            beep |-> PluginBeeps(iaq, st.bad_iaq_alarm)]

\* mutant: a reading with gas = 0 sends the engine back to calibration
PluginIaq_RecalibrateOnZeroGas(st, gas, humidity) ==
    PluginIaqGated(st, gas, humidity,
                   PluginCalibrating(st.burn_in_count + 1) \/ gas = 0)

PluginIaq(st, gas, humidity) ==
    PluginIaqGated(st, gas, humidity, PluginCalibrating(st.burn_in_count + 1))

\* mutant: a failed read still counts as a poll
PluginReadFailed_Counts(st) == [st EXCEPT !.burn_in_count = @ + 1]

\* mutant: a failed read restarts the calibration
PluginReadFailed_Restarts(st) == [st EXCEPT !.burn_in_count = 0]

\* the globals after the `else:` branch of poll ("BME680 read failed"),
\* which only prints and sets LED 2
PluginReadFailed(st) == st

(***************************************************************************)
(* What an operation reports (`out`) and the history of the run (`hist`).  *)
(***************************************************************************)
OutNone ==
    [op |-> "none",
     returned |-> FALSE,        \* a reading was returned
     iaq |-> 0, accuracy |-> 0, phase |-> "none",
     gas |-> 0,                 \* gas resistance of the reading
     gas_score |-> FInt(0), hum_score |-> FInt(0),
     hum_offset |-> 0,          \* |humidity - 40| as scored (Active only)
     beep |-> FALSE,            \* buzzer_controller.beep was called
     alarm_before |-> FALSE,    \* bad_iaq_alarm when the operation began
     status_reads |-> 0,        \* reads of the status register 0x1D
     new_data |-> FALSE,        \* the new-data bit was seen set
     decoded |-> FALSE,         \* the data block was decoded into a sample
     init_run |-> FALSE,        \* the driver was initialized in this operation
     init_ok |-> FALSE,         \* ... and the initialization succeeded
     chip_id |-> CHIP_ID_BME680, \* content of the device's chip-id register
     regs |-> <<>>]             \* registers read by that initialization

HistInit ==
    [readings |-> 0,            \* operations that produced an IAQ reading
     active_seen |-> FALSE,     \* some reading was scored in Active
     prev_worst |-> FALSE,      \* the previous reading scored above 200
     crossings |-> 0,           \* upward crossings of the score into (200, ..]
     raises |-> 0,              \* beeps issued (alarm raises)
     low_since_raise |-> FALSE, \* a score <= 180 was reported since the last raise
     calib_max |-> 0]           \* largest gas reading of the calibration phase
                                \* so far (0 once Active)

\* the history after an operation that reported the IAQ reading r
HistAfter(h, r) ==
    LET worst == r.accuracy = 1 /\ r.iaq > ALARM_RAISE IN
    [readings |-> h.readings + 1,
     active_seen |-> h.active_seen \/ r.accuracy = 1,
     prev_worst |-> worst,
     crossings |-> h.crossings + (IF worst /\ ~h.prev_worst THEN 1 ELSE 0),
     raises |-> h.raises + (IF r.beep THEN 1 ELSE 0),
     low_since_raise |->
        IF r.beep THEN FALSE
        ELSE h.low_since_raise \/ (r.accuracy = 1 /\ r.iaq <= ALARM_CLEAR),
     calib_max |->
        IF r.accuracy = 0
          THEN Max(h.calib_max, r.gas_history[Len(r.gas_history)])
          ELSE 0]

(***************************************************************************)
(* WASM plugin: Bme680Logic.poll.                                          *)
(***************************************************************************)
\* the inputs of one poll: a bus failure, or a short data block, or a sample
\* (every sample with the status bit set at once, one sample with it late
\* or never set)
PollInputs ==
    [bus : {"trigger", "status", "data"}, ready_at : {1}, data_len : {17},
     d13 : {0}, d14 : {48}, hum : {40}, raw_temp : RawTemps]
    \cup
    [bus : {"none"}, ready_at : {1}, data_len : {0, 14},
     d13 : {0}, d14 : {48}, hum : {40}, raw_temp : RawTemps]
    \cup
    { [bus |-> "none", ready_at |-> 1, data_len |-> 17,
       d13 |-> gb[1], d14 |-> gb[2], hum |-> h, raw_temp |-> rt] :
        gb \in GasBytes, h \in HumFormulaOut, rt \in RawTemps }
    \cup
    [bus : {"none"}, ready_at : StatusReadyLate, data_len : {17},
     d13 : {4}, d14 : {48}, hum : {40}, raw_temp : RawTemps]

PluginGlobals ==
    [gas_baseline |-> gas_baseline, burn_in_count |-> burn_in_count,
     gas_history |-> gas_history, bad_iaq_alarm |-> bad_iaq_alarm]

\* poll, with the lazily constructed driver drv, on the driver's result r
PluginPollOn(drv, id, r) ==
    LET base == [OutNone EXCEPT !.op = "poll",
                   !.status_reads = r.status_reads, !.new_data = r.new_data,
                   !.decoded = r.decoded,
                   !.init_run = ~driver.present,
                   !.init_ok = ~driver.present,
                   !.chip_id = id,
                   !.regs = IF driver.present THEN <<>> ELSE drv.init_regs,
                   !.alarm_before = bad_iaq_alarm]
    IN
    IF r.ok
      THEN \E q \in {PluginIaq(PluginGlobals, r.gas, r.humidity)} :
             /\ driver' = [drv EXCEPT !.t_fine_of = r.t_fine_of]
             /\ gas_baseline' = q.gas_baseline
             /\ burn_in_count' = q.burn_in_count
             /\ gas_history' = q.gas_history
             /\ bad_iaq_alarm' = q.bad_iaq_alarm
             /\ out' = [base EXCEPT !.returned = TRUE,
                          !.iaq = q.iaq, !.accuracy = q.accuracy, !.phase = q.phase,
                          !.gas = r.gas,
                          !.gas_score = q.gas_score, !.hum_score = q.hum_score,
                          !.hum_offset = q.hum_offset, !.beep = q.beep]
             /\ hist' = HistAfter(hist, q)
      ELSE \E q \in {PluginReadFailed(PluginGlobals)} :
             /\ driver' = drv
             /\ gas_baseline' = q.gas_baseline
             /\ burn_in_count' = q.burn_in_count
             /\ gas_history' = q.gas_history
             /\ bad_iaq_alarm' = q.bad_iaq_alarm
             /\ out' = base
             /\ UNCHANGED hist

PluginPoll ==
    /\ node = "pi4"
    /\ burn_in_count < MaxPolls
    /\ \E sc \in (IF driver.present THEN {CalBusOk} ELSE CalBusScenarios),
          id \in (IF driver.present THEN {CHIP_ID_BME680} ELSE ChipIds),
          in \in PollInputs :
         \E drv \in {IF driver.present THEN driver ELSE NewDriver(sc)},
            r \in {GetReadings(in)} :
              PluginPollOn(drv, id, r)
    /\ UNCHANGED <<node, dht, fan, oled, bme, bme2, pc>>

(***************************************************************************)
(* Native service: class BME680.                                           *)
(***************************************************************************)
\* no worker is inside a poll
NoWorkers == <<>>

\* BME680.__init__
BmeInit ==
    [initialized |-> FALSE, cal |-> <<>>, t_fine_of |-> 0,
     gas_baseline |-> 0, burn_in_count |-> 0, gas_history |-> <<>>]

\* the bus read of init_sensor that raises, if any
NativeInitFailPoints == {"none", "chip", "h1", "p2"}

\* the reads init_sensor makes, in order, and the coefficient group each
\* completes in self.cal ("" when the read completes none)
NativeInitReads ==
    << [reg |-> REG_CHIP_ID, name |-> "chip", group |-> ""],
       [reg |-> REG_T1, name |-> "t1", group |-> "t1"],
       [reg |-> REG_T23, name |-> "t23", group |-> "t23"],
       [reg |-> REG_H1, name |-> "h1", group |-> ""],
       [reg |-> REG_H2, name |-> "h2", group |-> "h"],
       [reg |-> REG_P1, name |-> "p1", group |-> ""],
       [reg |-> REG_P2, name |-> "p2", group |-> "p"] >>

\* init_sensor from its k-th read on: [ok, cal, regs]
RECURSIVE InitSensorFrom(_, _, _, _, _)
InitSensorFrom(k, id, fail, cal, regs) ==
    IF k > Len(NativeInitReads) THEN [ok |-> TRUE, cal |-> cal, regs |-> regs]
    ELSE
      LET rd == NativeInitReads[k]
          regs2 == Append(regs, rd.reg)
      IN
      IF fail = rd.name THEN [ok |-> FALSE, cal |-> cal, regs |-> regs2]
      ELSE IF rd.name = "chip" /\ id # CHIP_ID_BME680
        THEN [ok |-> FALSE, cal |-> cal, regs |-> regs2]
      ELSE InitSensorFrom(k + 1, id, fail,
                          IF rd.group = "" THEN cal ELSE Append(cal, rd.group),
                          regs2)

\* BME680.init_sensor on instance b, the device holding chip id `id`
InitSensor(b, id, fail) ==
    IF b.initialized THEN [ok |-> TRUE, cal |-> b.cal, regs |-> <<>>]
    ELSE InitSensorFrom(1, id, fail, <<>>, <<>>)

\* gas decode of the native driver, capped at the ceiling
NativeGas(d13, d14) ==
    LET gas_valid == BitAnd(d14, 32) # 0
        heater_stab == BitAnd(d14, 16) # 0
        raw_gas == BitOr(Shl(d13, 2), Shr(BitAnd(d14, 192), 6))
        gas_range == BitAnd(d14, 15)
    IN
    IF gas_valid /\ heater_stab /\ raw_gas > 0
      THEN Min((1340000 * Resolution) \div (raw_gas * (2 ^ gas_range)),
               GAS_CEILING_KOHM * Resolution)
      ELSE 0

\* the inputs of one read: a bus failure (on the writes or on the data
\* block), or a sample
ReadInputs ==
    [bus : {"trigger", "data"}, d13 : {0}, d14 : {48}, hum : {40}, raw_temp : RawTemps]
    \cup
    { [bus |-> "none", d13 |-> gb[1], d14 |-> gb[2], hum |-> h, raw_temp |-> rt] :
        gb \in GasBytes, h \in HumFormulaOut, rt \in RawTemps }

\* BME680.read, its init_sensor having ended as i
NativeReadOn(i, id, in) ==
    LET base == [OutNone EXCEPT !.op = "read",
                   !.init_run = ~bme.initialized,
                   !.init_ok = ~bme.initialized /\ i.ok,
                   !.chip_id = id,
                   !.regs = i.regs]
    IN
    IF ~i.ok
      THEN /\ bme' = [bme EXCEPT !.cal = i.cal]
           /\ out' = base
    ELSE IF in.bus # "none"
      THEN /\ bme' = [bme EXCEPT !.cal = i.cal, !.initialized = TRUE]
           /\ out' = base
    ELSE /\ bme' = [bme EXCEPT !.cal = i.cal, !.initialized = TRUE,
                               !.t_fine_of = in.raw_temp]
         /\ out' = [base EXCEPT !.returned = TRUE, !.decoded = TRUE,
                      !.gas = NativeGas(in.d13, in.d14)]

NativeRead ==
    /\ node = "pizero"
    /\ \E fail \in (IF bme.initialized THEN {"none"} ELSE NativeInitFailPoints),
          id \in (IF bme.initialized THEN {CHIP_ID_BME680} ELSE ChipIds),
          in \in ReadInputs :
         \E i \in {InitSensor(bme, id, fail)} : NativeReadOn(i, id, in)
    /\ UNCHANGED <<node, dht, fan, oled, driver, gas_baseline, burn_in_count,
                   gas_history, bad_iaq_alarm, bme2, pc, hist>>

\* the gas score of calculate_iaq, from the updated baseline b
NativeGasScore(b, gas) ==
    IF b > 0 /\ gas > 0
      THEN LET gas_score == IF gas >= b
                              THEN FInt(0)
                              ELSE Frac((b - gas) * GAS_SCORE_MAX, b)
           IN FMax(FInt(0), FMin(FInt(GAS_SCORE_MAX), gas_score))
      ELSE FInt(NEUTRAL_GAS_SCORE)

NativeHumScore(humidity) ==
    FMin(FInt(HUM_SCORE_MAX), Frac(Abs(humidity - IDEAL_HUMIDITY) * 25, 60))

NativeComposite(gas_score, hum_score) ==
    Min(IAQ_MAX, Max(0, FTrunc(FScale(FAdd(gas_score, hum_score), IAQ_SCALE))))

\* mutant: the 12th call is still calibrating
NativeCalibrating_Inclusive(count) == count <= 12

\* `if self.burn_in_count < 12`, on the incremented count
NativeCalibrating(count) == count < BURN_IN

\* BME680.calculate_iaq(gas, humidity) on instance b: the fields after the
\* call and the (iaq, accuracy, status) returned
CalculateIaq(b, gas, humidity) ==
    LET count == b.burn_in_count + 1
        history == PushHistory(b.gas_history, gas)
    IN
    IF NativeCalibrating(count)
      THEN [gas_baseline |-> IF gas > b.gas_baseline THEN gas ELSE b.gas_baseline,
            burn_in_count |-> count, gas_history |-> history,
            iaq |-> 0, accuracy |-> 0, phase |-> "Calibrating",
            gas_score |-> FInt(0), hum_score |-> FInt(0), hum_offset |-> 0,
            beep |-> FALSE]
      ELSE
        LET nb == IF gas > b.gas_baseline THEN gas ELSE Decay(b.gas_baseline, gas)
            gas_score == NativeGasScore(nb, gas)
            hum_score == NativeHumScore(humidity)
            iaq == NativeComposite(gas_score, hum_score)
        IN [gas_baseline |-> nb,
            burn_in_count |-> count, gas_history |-> history,
            iaq |-> iaq, accuracy |-> 1, phase |-> StatusLabel(iaq),
            gas_score |-> gas_score, hum_score |-> hum_score,
            hum_offset |-> Abs(humidity - IDEAL_HUMIDITY),
            beep |-> FALSE]

\* arguments a caller passes to calculate_iaq: a gas resistance and a
\* humidity as read() returns them
GasArgs == {0, 10 * Resolution, 40 * Resolution}
HumidityArgs == {0, 40, 55, 100}

NativeCalculateIaq ==
    /\ node = "pizero"
    /\ bme.burn_in_count < MaxPolls
    /\ \E gas \in GasArgs, humidity \in HumidityArgs :
         \E q \in {CalculateIaq(bme, gas, humidity)} :
           /\ bme' = [bme EXCEPT !.gas_baseline = q.gas_baseline,
                                 !.burn_in_count = q.burn_in_count,
                                 !.gas_history = q.gas_history]
           /\ out' = [OutNone EXCEPT !.op = "calculate_iaq", !.returned = TRUE,
                        !.iaq = q.iaq, !.accuracy = q.accuracy, !.phase = q.phase,
                        !.gas = gas,
                        !.gas_score = q.gas_score, !.hum_score = q.hum_score,
                        !.hum_offset = q.hum_offset]
           /\ hist' = HistAfter(hist, q)
    /\ UNCHANGED <<node, dht, fan, oled, driver, gas_baseline, burn_in_count,
                   gas_history, bad_iaq_alarm, bme2, pc>>

(***************************************************************************)
(* The other plugins of the node, as they stand when their modules load.   *)
(***************************************************************************)
\* dht22/app.py: the four alarm flags
DhtInit ==
    [high_alarm_active |-> FALSE, low_alarm_active |-> FALSE,
     high_humidity_active |-> FALSE, low_humidity_active |-> FALSE]

\* pi4-monitor: the relay is off until set_fan(True)
FanInit == [on |-> FALSE]

\* frame buffer size, OLED_WIDTH * OLED_HEIGHT // 8
OLED_WIDTH == 128
OLED_HEIGHT == 64
BufferLen == (OLED_WIDTH * OLED_HEIGHT) \div 8

\* a bytearray of BufferLen bytes is kept as the function from the indexes
\* (0-based, as in the code) of its non-zero bytes to those bytes
ZeroBuffer == <<>>

\* oled/app.py: `_buffer = bytearray(...)`, `_initialized = False`
OledInit == [initialized |-> FALSE, buffer |-> ZeroBuffer]

(***************************************************************************)
(* Specification.                                                          *)
(***************************************************************************)
Init ==
    /\ node \in {"pi4", "pizero"}
    /\ dht = DhtInit
    /\ fan = FanInit
    /\ oled = OledInit
    /\ driver = NoDriver
    /\ gas_baseline = 0
    /\ burn_in_count = 0
    /\ gas_history = <<>>
    /\ bad_iaq_alarm = FALSE
    /\ bme = BmeInit
    /\ bme2 = BmeInit
    /\ pc = NoWorkers
    /\ out = OutNone
    /\ hist = HistInit

Next ==
    \/ PluginPoll
    \/ NativeRead
    \/ NativeCalculateIaq

Spec == Init /\ [][Next]_vars

(***************************************************************************)
(* The decode functions of the two drivers, as pure functions of the       *)
(* register bytes.  A run draws one call (a function and its bytes) and    *)
(* applies the running program's code to it.                               *)
(***************************************************************************)
Bytes == 0..255
Words == 0..65535

\* mutant: the boundary value 32768 is left positive
PluginSigned16_OffByOne(val) == IF val > 32768 THEN val - 65536 ELSE val

\* `_signed16` of the plugin: `val - 65536 if val > 32767 else val`
PluginSigned16(val) == IF val > 32767 THEN val - 65536 ELSE val

\* the inline 8-bit decode of the plugin (t3, h3, h4, h5, h7):
\* `x if x < 128 else x - 256`
PluginSigned8(x) == IF x < 128 THEN x ELSE x - 256

\* `_signed8` of the native driver: `val if val < 128 else val - 256`
NativeSigned8(val) == IF val < 128 THEN val ELSE val - 256

\* `_signed16` of the native driver: `val if val < 32768 else val - 65536`
NativeSigned16(val) == IF val < 32768 THEN val ELSE val - 65536

\* mutant: h1 is rescaled first, and the modulo term then uses the rescaled
\* value instead of the unpacked field
PluginHumPair_RescaleFirst(e1, e2, e3) ==
    LET cal_h2 == BitOr(Shl(e1, 4), Shr(e2, 4))
        cal_h1 == BitOr(Shl(e3, 4), BitAnd(e2, 15))
        h1 == Frac(cal_h1, 16)
    IN [h2 |-> (cal_h2 * 16) + (FTrunc(h1) % 16), h1 |-> h1]

\* the humidity pair of the plugin, from the bytes at 0xE1..0xE3: the dict
\* entries are first set to the unpacked 12-bit fields, read back into
\* h1_raw / h2_raw and then overwritten by the rescaled values
PluginHumPair(e1, e2, e3) ==
    LET cal_h2 == BitOr(Shl(e1, 4), Shr(e2, 4))
        cal_h1 == BitOr(Shl(e3, 4), BitAnd(e2, 15))
        h1_raw == cal_h1
        h2_raw == cal_h2
    IN [h2 |-> (h2_raw * 16) + (h1_raw % 16), h1 |-> Frac(h1_raw, 16)]

\* the humidity pair of the native driver (locals h2_raw, h1_raw)
NativeHumPair(e1, e2, e3) ==
    LET h2_raw == BitOr(Shl(e1, 4), Shr(e2, 4))
        h1_raw == BitOr(Shl(e3, 4), BitAnd(e2, 15))
    IN [h2 |-> (h2_raw * 16) + (h1_raw % 16), h1 |-> Frac(h1_raw, 16)]

\* whether the gas decode of the plugin divides, and by what: it never does
\* (`gas = float(raw_gas) * 2.5`)
PluginGasDivision(d13, d14) == [attempted |-> FALSE, divisor |-> 1]

\* whether the gas decode of the native driver divides, and by what: only
\* inside `if gas_valid and heater_stab:` and `if raw_gas > 0:`
NativeGasDivision(d13, d14) ==
    LET gas_valid == BitAnd(d14, 32) # 0
        heater_stab == BitAnd(d14, 16) # 0
        raw_gas == BitOr(Shl(d13, 2), Shr(BitAnd(d14, 192), 6))
        gas_range == BitAnd(d14, 15)
    IN
    IF gas_valid /\ heater_stab /\ raw_gas > 0
      THEN [attempted |-> TRUE, divisor |-> raw_gas * (2 ^ gas_range)]
      ELSE [attempted |-> FALSE, divisor |-> 1]

\* sampled values of the outer bytes 0xE1 and 0xE3 of the humidity pair
\* (the shared byte 0xE2 takes every value)
PairOuterBytes == {0, 1, 15, 16, 100, 128, 240, 255}

\* the calls a run may draw
DecodeCalls ==
    [op : {"gas"}, a : Bytes, b : Bytes, c : {0}]
    \cup [op : {"hum_pair"}, a : PairOuterBytes, b : Bytes, c : PairOuterBytes]
    \cup [op : {"signed8"}, a : Bytes, b : {0}, c : {0}]
    \cup [op : {"signed16"}, a : Words, b : {0}, c : {0}]

\* the gas part of get_readings / read on the bytes data[13], data[14]
DecodeGas ==
    /\ out.op = "gas" /\ ~out.done
    /\ out' = [out EXCEPT !.done = TRUE,
                 !.gas = IF node = "pi4" THEN PluginGas(out.a, out.b)
                                         ELSE NativeGas(out.a, out.b),
                 !.division = IF node = "pi4" THEN PluginGasDivision(out.a, out.b)
                                              ELSE NativeGasDivision(out.a, out.b)]
    /\ UNCHANGED <<node, dht, fan, oled, driver, gas_baseline, burn_in_count, gas_history,
                   bad_iaq_alarm, bme, bme2, pc, hist>>

\* the humidity pair of _load_calibration / init_sensor
DecodeHumPair ==
    /\ out.op = "hum_pair" /\ ~out.done
    /\ out' = [out EXCEPT !.done = TRUE,
                 !.pair = IF node = "pi4" THEN PluginHumPair(out.a, out.b, out.c)
                                          ELSE NativeHumPair(out.a, out.b, out.c)]
    /\ UNCHANGED <<node, dht, fan, oled, driver, gas_baseline, burn_in_count, gas_history,
                   bad_iaq_alarm, bme, bme2, pc, hist>>

\* a signed coefficient of _load_calibration / init_sensor
DecodeSigned ==
    /\ out.op \in {"signed8", "signed16"} /\ ~out.done
    /\ out' = [out EXCEPT !.done = TRUE,
                 !.value = IF out.op = "signed8"
                             THEN (IF node = "pi4" THEN PluginSigned8(out.a)
                                                   ELSE NativeSigned8(out.a))
                             ELSE (IF node = "pi4" THEN PluginSigned16(out.a)
                                                   ELSE NativeSigned16(out.a))]
    /\ UNCHANGED <<node, dht, fan, oled, driver, gas_baseline, burn_in_count, gas_history,
                   bad_iaq_alarm, bme, bme2, pc, hist>>

DecodeInit ==
    /\ node \in {"pi4", "pizero"}
    /\ dht = DhtInit
    /\ fan = FanInit
    /\ oled = OledInit
    /\ driver = NoDriver
    /\ gas_baseline = 0
    /\ burn_in_count = 0
    /\ gas_history = <<>>
    /\ bad_iaq_alarm = FALSE
    /\ bme = BmeInit
    /\ bme2 = BmeInit
    /\ pc = NoWorkers
    /\ \E call \in DecodeCalls :
         out = [op |-> call.op, a |-> call.a, b |-> call.b, c |-> call.c,
                done |-> FALSE, gas |-> 0,
                division |-> [attempted |-> FALSE, divisor |-> 1],
                pair |-> [h2 |-> 0, h1 |-> FInt(0)], value |-> 0]
    /\ hist = HistInit

DecodeNext ==
    \/ DecodeGas
    \/ DecodeHumPair
    \/ DecodeSigned

DecodeSpec == DecodeInit /\ [][DecodeNext]_vars

(***************************************************************************)
(* Compensation, with numbers.  The float formulas are evaluated on the    *)
(* integer grid: every product-and-division is rounded toward zero.  The   *)
(* units are: t_fine as in the code, temperature in 1/100 degC, humidity   *)
(* in whole percent, pressure in Pa (1/100 hPa), gas as above.             *)
(***************************************************************************)
\* quotient and remainder of a * b by d (a, b >= 0, d > 0), computed bit by
\* bit so that the product itself is never formed
RECURSIVE MulDivQR(_, _, _)
MulDivQR(a, b, d) ==
    IF b = 0 THEN [q |-> 0, r |-> 0]
    ELSE LET h == MulDivQR(a, b \div 2, d)
             add == IF b % 2 = 1 THEN a ELSE 0
             r2 == 2 * h.r + (add % d)
         IN [q |-> 2 * h.q + (add \div d) + (r2 \div d), r |-> r2 % d]

\* a * b / d and a / d, rounded toward zero (d > 0)
MulDiv(a, b, d) ==
    LET x == MulDivQR(Abs(a), Abs(b), d).q IN
    IF (a < 0) # (b < 0) THEN -x ELSE x
TDiv(a, d) == IF a >= 0 THEN a \div d ELSE -((-a) \div d)

\* t_fine from the raw temperature code: `var1 = (raw/16384 - t1/1024) * t2;
\* var2 = (raw/131072 - t1/8192)^2 * t3 * 16; t_fine = var1 + var2`
TFine(raw_temp, cal) ==
    LET a == raw_temp - 16 * cal.t1 IN
    MulDiv(a, cal.t2, 16384) + MulDiv(MulDiv(a, a, 32768), cal.t3, 32768)

\* `temp = t_fine / 5120.0`, in 1/100 degC
Temperature(t_fine) == MulDiv(t_fine, 100, 5120)

\* the humidity formula (before the clamp) from the raw humidity code, the
\* t_fine handed to it and the coefficients h1..h7; var3 is carried divided
\* by 16384 and var6 divided by 16384
HumidityFormula(raw_hum, t_fine, cal) ==
    LET temp_scaled == TDiv(t_fine * 5 + 128, 256)
        var1 == (raw_hum - FTrunc(FScale(cal.h1, 16)))
                   - MulDiv(temp_scaled, cal.h3, 200)
        inner == MulDiv(temp_scaled, cal.h4, 100)
                   + TDiv(TDiv(MulDiv(temp_scaled,
                                      MulDiv(temp_scaled, cal.h5, 100), 1), 64), 100)
                   + 16384
        var2 == MulDiv(cal.h2, inner, 1024)
        var3s == MulDiv(var1, var2, 16384)
        var4 == TDiv(cal.h6 * 128 + MulDiv(temp_scaled, cal.h7, 100), 16)
        var5 == MulDiv(var3s, var3s, 1024)
        var6s == MulDiv(var4, var5, 32768)
    IN TDiv(var3s + var6s, 256)

\* the humidity clamp of the native driver: `max(0.0, min(100.0, humidity))`
NativeClampHumidity(h) == Max(0, Min(100, h))

\* `pressure = raw_pres / 100.0` of the plugin, in 1/100 of its unit
PluginPressure(raw_pres) == raw_pres

\* the pressure polynomial of the native driver from the raw pressure code,
\* self.t_fine and p1..p10; var2 is carried divided by 4096
NativePressure(raw_pres, t_fine, cal) ==
    LET v1 == TDiv(t_fine, 2) - 64000
        var2s == TDiv(MulDiv(MulDiv(v1, v1, 131072), cal.p6, 1), 16384)
                   + MulDiv(v1, cal.p5, 8192) + cal.p4 * 16
        x1 == MulDiv(MulDiv(v1, v1, 16384), cal.p3, 524288)
                   + MulDiv(v1, cal.p2, 524288)
        var1 == cal.p1 + MulDiv(x1, cal.p1, 32768)
        p0 == 1048576 - raw_pres
    IN
    IF var1 = 0 THEN p0
    ELSE
      LET p1 == IF var1 > 0 THEN MulDiv(p0 - var2s, 6250, var1)
                            ELSE -MulDiv(p0 - var2s, 6250, -var1)
          y1 == MulDiv(MulDiv(p1, p1, 65536), cal.p9, 32768)
          y2 == MulDiv(p1, cal.p8, 32768)
          c == TDiv(p1, 256)
          y3 == MulDiv(MulDiv(c * c, c, 1), cal.p10, 131072)
      IN p1 + TDiv(y1 + y2 + y3 + cal.p7 * 128, 16)

(***************************************************************************)
(* The drivers with their coefficient values.  Under DriverSpec the        *)
(* variables `driver` and `bme` hold the driver objects with the numbers   *)
(* of self.cal and self.t_fine, `out` the sample of the last operation and *)
(* `hist` what the run has seen.                                           *)
(***************************************************************************)
\* init_sensor calls per run
MaxInits == 3

\* the calibration registers of two devices: the blocks at 0xE9 (2 bytes),
\* 0x8A (3), 0xE1 (3), 0xE4 (5), 0x8E (16) and 0x9E (2)
DeviceA ==
    [b_t1 |-> <<144, 101>>, b_t23 |-> <<132, 103, 3>>,
     b_h1 |-> <<3, 229, 50>>, b_h2 |-> <<0, 45, 20, 120, 156>>,
     b_p1 |-> <<125, 142, 67, 214, 88, 0, 120, 27, 102, 255, 32, 30, 0, 30, 32, 252>>,
     b_p2 |-> <<160, 242>>]
DeviceB ==
    [b_t1 |-> <<64, 103>>, b_t23 |-> <<90, 102, 253>>,
     b_h1 |-> <<4, 26, 40>>, b_h2 |-> <<254, 40, 25, 110, 160>>,
     b_p1 |-> <<192, 136, 212, 215, 88, 0, 220, 37, 208, 255, 20, 30, 0, 30, 184, 247>>,
     b_p2 |-> <<28, 245>>]
Devices == {DeviceA, DeviceB}

\* where a coefficient group of self.cal comes from: not set, read from the
\* device by the load-th initialization, or the hard-coded default
Unset == [from |-> "unset", load |-> 0]
FromDevice(load) == [from |-> "device", load |-> load]
FromDefault(load) == [from |-> "default", load |-> load]

\* `self.cal = {}`
CalEmpty ==
    [t1 |-> 0, t2 |-> 0, t3 |-> 0,
     h1 |-> FInt(0), h2 |-> 0, h3 |-> 0, h4 |-> 0, h5 |-> 0, h6 |-> 0, h7 |-> 0,
     p1 |-> 0, p2 |-> 0, p3 |-> 0, p4 |-> 0, p5 |-> 0,
     p6 |-> 0, p7 |-> 0, p8 |-> 0, p9 |-> 0, p10 |-> 0,
     src |-> [t1 |-> Unset, t23 |-> Unset, h |-> Unset, p |-> Unset]]

\* the default temperature coefficients of the plugin
SetDefaultT(cal, load) ==
    [cal EXCEPT !.t1 = 26000, !.t2 = 26500, !.t3 = 3,
                !.src.t1 = FromDefault(load), !.src.t23 = FromDefault(load)]

\* the default humidity coefficients of the plugin
SetDefaultH(cal, load) ==
    [cal EXCEPT !.h1 = FInt(800), !.h2 = 800, !.h3 = 0, !.h4 = 45, !.h5 = 20,
                !.h6 = 120, !.h7 = -100, !.src.h = FromDefault(load)]

\* `self.cal['t1'] = t1_data[0] | (t1_data[1] << 8)` (both drivers)
SetT1(cal, dev, load) ==
    [cal EXCEPT !.t1 = BitOr(dev.b_t1[1], Shl(dev.b_t1[2], 8)),
                !.src.t1 = FromDevice(load)]

\* t2 and t3 of the plugin
PluginSetT23(cal, dev, load) ==
    [cal EXCEPT !.t2 = PluginSigned16(BitOr(dev.b_t23[1], Shl(dev.b_t23[2], 8))),
                !.t3 = PluginSigned8(dev.b_t23[3]),
                !.src.t23 = FromDevice(load)]

\* h1..h7 of the plugin
PluginSetH(cal, dev, load) ==
    LET pair == PluginHumPair(dev.b_h1[1], dev.b_h1[2], dev.b_h1[3]) IN
    [cal EXCEPT !.h1 = pair.h1, !.h2 = pair.h2,
                !.h3 = PluginSigned8(dev.b_h2[1]), !.h4 = PluginSigned8(dev.b_h2[2]),
                !.h5 = PluginSigned8(dev.b_h2[3]), !.h6 = dev.b_h2[4],
                !.h7 = PluginSigned8(dev.b_h2[5]),
                !.src.h = FromDevice(load)]

\* BME680Driver._load_calibration with numbers: self.cal after it, for the
\* device dev and the outcomes sc of its four block reads
LoadCalibrationValues(dev, sc) ==
    LET all_defaults == SetDefaultH(SetDefaultT(CalEmpty, 1), 1) IN
    IF sc[1] = "err" \/ sc[2] = "err" THEN all_defaults
    ELSE
      LET t == IF sc[1] = "ok" /\ sc[2] = "ok"
                 THEN PluginSetT23(SetT1(CalEmpty, dev, 1), dev, 1)
                 ELSE SetDefaultT(CalEmpty, 1)
      IN
      IF sc[3] = "err" \/ sc[4] = "err" THEN all_defaults
      ELSE IF sc[3] = "ok" /\ sc[4] = "ok" THEN PluginSetH(t, dev, 1)
      ELSE SetDefaultH(t, 1)

\* BME680Driver.__init__ with numbers
NewDriverValues(dev, sc) ==
    [present |-> TRUE, cal |-> LoadCalibrationValues(dev, sc), t_fine |-> 0]

\* the data blocks (registers 0x1D..0x2D) a measurement may leave: the bytes
\* of pressure data[2..4], temperature data[5..7], humidity data[8..9] and
\* gas data[13..14]
Samples ==
    << [p |-> <<97, 168, 0>>, t |-> <<120, 226, 64>>, h |-> <<50, 155>>, g |-> <<4, 48>>],
       [p |-> <<73, 62, 0>>, t |-> <<144, 0, 0>>, h |-> <<255, 255>>, g |-> <<1, 48>>],
       [p |-> <<97, 168, 0>>, t |-> <<120, 226, 64>>, h |-> <<0, 0>>, g |-> <<4, 16>>],
       [p |-> <<97, 168, 0>>, t |-> <<96, 0, 0>>, h |-> <<50, 155>>, g |-> <<4, 48>>] >>

\* `(data[i] << 12) | (data[i+1] << 4) | (data[i+2] >> 4)`
Raw20(b) == BitOr(BitOr(Shl(b[1], 12), Shl(b[2], 4)), Shr(b[3], 4))
\* `(data[8] << 8) | data[9]`
Raw16(b) == BitOr(Shl(b[1], 8), b[2])

\* the inputs of one get_readings / read: the bus fails on the trigger or
\* on the data read, the data block is short, or sample k is read
DriverInputs ==
    [bus : {"trigger", "data", "short"}, k : {1}]
    \cup [bus : {"none"}, k : 1..Len(Samples)]

\* mutant: the humidity step takes the t_fine left on the driver by the
\* previous poll
PluginHumTFine_Retained(retained, fresh) == retained

\* the t_fine the humidity step of the plugin uses: the local `t_fine` just
\* computed (also stored to self.t_fine)
PluginHumTFine(retained, fresh) == fresh

\* no sample: get_readings / read returned None
NoSample(t_fine) ==
    [ok |-> FALSE, t_fine |-> t_fine, temp |-> 0, hum_formula |-> 0,
     humidity |-> 0, pressure |-> 0, gas |-> 0]

\* BME680Driver.get_readings with numbers, on the driver object drv
GetReadingsValues(drv, in) ==
    IF in.bus # "none" THEN NoSample(drv.t_fine)
    ELSE
      LET data == Samples[in.k]
          t_fine == TFine(Raw20(data.t), drv.cal)
          hum == HumidityFormula(Raw16(data.h),
                                 PluginHumTFine(drv.t_fine, t_fine), drv.cal)
      IN [ok |-> TRUE, t_fine |-> t_fine,
          temp |-> Temperature(t_fine),
          hum_formula |-> hum,
          humidity |-> PluginClampHumidity(hum),
          pressure |-> PluginPressure(Raw20(data.p)),
          gas |-> PluginGas(data.g[1], data.g[2])]

\* the position of the read of init_sensor that raises (past the end: none)
NativeFailIndex(fail) ==
    IF fail = "none" THEN Len(NativeInitReads) + 1
    ELSE CHOOSE k \in 1..Len(NativeInitReads) : NativeInitReads[k].name = fail

\* t2 and t3 of the native driver
NativeSetT23(cal, dev, load) ==
    [cal EXCEPT !.t2 = NativeSigned16(BitOr(dev.b_t23[1], Shl(dev.b_t23[2], 8))),
                !.t3 = NativeSigned8(dev.b_t23[3]),
                !.src.t23 = FromDevice(load)]

\* h1..h7 of the native driver
NativeSetH(cal, dev, load) ==
    LET pair == NativeHumPair(dev.b_h1[1], dev.b_h1[2], dev.b_h1[3]) IN
    [cal EXCEPT !.h1 = pair.h1, !.h2 = pair.h2,
                !.h3 = NativeSigned8(dev.b_h2[1]), !.h4 = NativeSigned8(dev.b_h2[2]),
                !.h5 = NativeSigned8(dev.b_h2[3]), !.h6 = dev.b_h2[4],
                !.h7 = NativeSigned8(dev.b_h2[5]),
                !.src.h = FromDevice(load)]

\* p1..p10 of the native driver (p_data1[i] is b_p1[i + 1])
NativeSetP(cal, dev, load) ==
    LET b == dev.b_p1
        w(i) == BitOr(b[i + 1], Shl(b[i + 2], 8))
    IN
    [cal EXCEPT !.p1 = w(0), !.p2 = NativeSigned16(w(2)),
                !.p3 = NativeSigned8(b[5]), !.p4 = NativeSigned16(w(6)),
                !.p5 = NativeSigned16(w(8)), !.p6 = NativeSigned8(b[12]),
                !.p7 = NativeSigned8(b[11]), !.p8 = NativeSigned16(w(14)),
                !.p9 = NativeSigned16(BitOr(dev.b_p2[1], Shl(dev.b_p2[2], 8))),
                !.p10 = b[14],
                !.src.p = FromDevice(load)]

\* BME680.init_sensor with numbers, as the load-th initialization, on the
\* device dev: self.cal is filled read by read until the read that raises
InitSensorValues(b, dev, fail, load) ==
    IF b.initialized THEN [ok |-> TRUE, cal |-> b.cal]
    ELSE
      LET at == NativeFailIndex(fail)
          c1 == IF at > 2 THEN SetT1(b.cal, dev, load) ELSE b.cal
          c2 == IF at > 3 THEN NativeSetT23(c1, dev, load) ELSE c1
          c3 == IF at > 5 THEN NativeSetH(c2, dev, load) ELSE c2
          c4 == IF at > 7 THEN NativeSetP(c3, dev, load) ELSE c3
      IN [ok |-> fail = "none", cal |-> c4]

\* BME680.read with numbers after a successful init_sensor, on the fields b
NativeReadValues(b, in) ==
    IF in.bus # "none" THEN NoSample(b.t_fine)
    ELSE
      LET data == Samples[in.k]
          t_fine == TFine(Raw20(data.t), b.cal)         \* self.t_fine = ...
          hum == HumidityFormula(Raw16(data.h), t_fine, b.cal)
      IN [ok |-> TRUE, t_fine |-> t_fine,
          temp |-> Temperature(t_fine),
          hum_formula |-> hum,
          humidity |-> NativeClampHumidity(hum),
          pressure |-> NativePressure(Raw20(data.p), t_fine, b.cal),
          gas |-> NativeGas(data.g[1], data.g[2])]

\* bus outcomes of the four block reads of _load_calibration
DriverBusScenarios ==
    { CalBusOk,
      <<"ok", "ok", "short", "ok">>,
      <<"short", "ok", "ok", "ok">>,
      <<"ok", "ok", "ok", "err">> }

\* what an operation of a driver did
DriverOut(op, k, r, init_run) ==
    [op |-> op, returned |-> r.ok, k |-> IF r.ok THEN k ELSE 0,
     temp |-> r.temp, hum_formula |-> r.hum_formula, humidity |-> r.humidity,
     pressure |-> r.pressure, gas |-> r.gas, init_run |-> init_run]

\* the sample first returned for each data block, if any
NotSeen == [has |-> FALSE, temp |-> 0, humidity |-> 0, pressure |-> 0, gas |-> 0]
SeenAfter(seen, k, r) ==
    IF r.ok /\ ~seen[k].has
      THEN [seen EXCEPT ![k] = [has |-> TRUE, temp |-> r.temp,
                                humidity |-> r.humidity,
                                pressure |-> r.pressure, gas |-> r.gas]]
      ELSE seen

\* the history after get_readings / read ended as r on data block k, the
\* driver holding t_fine `retained` when it began
DriverHistAfter(h, k, r, retained) ==
    [h EXCEPT !.seen = SeenAfter(@, k, r),
              !.again = r.ok /\ h.seen[k].has /\ retained # r.t_fine]

\* native fields with numbers
BmeValuesInit ==
    [initialized |-> FALSE, cal |-> CalEmpty, t_fine |-> 0,
     gas_baseline |-> 0, burn_in_count |-> 0, gas_history |-> <<>>]

\* `driver = BME680Driver(0x77)`
DriverNew ==
    /\ node = "pi4"
    /\ ~driver.present
    /\ \E dev \in Devices, sc \in DriverBusScenarios :
         driver' = NewDriverValues(dev, sc)
    /\ out' = DriverOut("new", 0, NoSample(0), TRUE)
    /\ hist' = [hist EXCEPT !.inits = @ + 1, !.again = FALSE]
    /\ UNCHANGED <<node, dht, fan, oled, gas_baseline, burn_in_count, gas_history,
                   bad_iaq_alarm, bme, bme2, pc>>

\* `driver.get_readings()`
DriverGetReadings ==
    /\ node = "pi4"
    /\ driver.present
    /\ \E in \in DriverInputs :
         \E r \in {GetReadingsValues(driver, in)} :
           /\ driver' = [driver EXCEPT !.t_fine = r.t_fine]
           /\ out' = DriverOut("get_readings", in.k, r, FALSE)
           /\ hist' = DriverHistAfter(hist, in.k, r, driver.t_fine)
    /\ UNCHANGED <<node, dht, fan, oled, gas_baseline, burn_in_count, gas_history,
                   bad_iaq_alarm, bme, bme2, pc>>

\* `BME680.read()`, with the init_sensor it runs while not initialized
DriverNativeRead ==
    /\ node = "pizero"
    /\ bme.initialized \/ hist.inits < MaxInits
    /\ \E dev \in Devices,
          fail \in (IF bme.initialized THEN {"none"} ELSE NativeInitFailPoints),
          in \in {i \in DriverInputs : i.bus # "short"} :
         \E i \in {InitSensorValues(bme, dev, fail, hist.inits + 1)} :
           IF ~i.ok
             THEN /\ bme' = [bme EXCEPT !.cal = i.cal]
                  /\ out' = DriverOut("read", 0, NoSample(0), TRUE)
                  /\ hist' = [hist EXCEPT !.inits = @ + 1, !.again = FALSE]
             ELSE \E r \in {NativeReadValues([bme EXCEPT !.cal = i.cal], in)} :
                  /\ bme' = [bme EXCEPT !.cal = i.cal, !.initialized = TRUE,
                                        !.t_fine = r.t_fine]
                  /\ out' = DriverOut("read", in.k, r, ~bme.initialized)
                  /\ hist' = [DriverHistAfter(hist, in.k, r, bme.t_fine) EXCEPT
                                !.inits = IF bme.initialized THEN @ ELSE @ + 1]
    /\ UNCHANGED <<node, dht, fan, oled, driver, gas_baseline, burn_in_count, gas_history,
                   bad_iaq_alarm, bme2, pc>>

DriverInit ==
    /\ node \in {"pi4", "pizero"}
    /\ dht = DhtInit
    /\ fan = FanInit
    /\ oled = OledInit
    /\ driver = NoDriver
    /\ gas_baseline = 0
    /\ burn_in_count = 0
    /\ gas_history = <<>>
    /\ bad_iaq_alarm = FALSE
    /\ bme = BmeValuesInit
    /\ bme2 = BmeInit
    /\ pc = NoWorkers
    /\ out = DriverOut("none", 0, NoSample(0), FALSE)
    /\ hist = [inits |-> 0,       \* initializations run so far
               seen |-> [k \in 1..Len(Samples) |-> NotSeen],
               again |-> FALSE]   \* the last operation re-read a data block
                                  \* seen before, with another t_fine retained

DriverNext ==
    \/ DriverNew
    \/ DriverGetReadings
    \/ DriverNativeRead

DriverSpec == DriverInit /\ [][DriverNext]_vars

(***************************************************************************)
(* Two sensor instances.  Under InstSpec the native program holds two      *)
(* BME680 objects, `bme` (instance 1) and `bme2` (instance 2), and any of  *)
(* their methods may be called in any order.                               *)
(***************************************************************************)
\* calculate_iaq calls per instance
MaxInstPolls == 12

Instances == {1, 2}
Inst(i) == IF i = 1 THEN bme ELSE bme2

\* mutant: the fields live in one place shared by all instances (as module
\* globals or class attributes would)
StateOwner_Shared(i) == 1

\* the object whose fields a method called on instance i reads and writes:
\* `self`, every field being created per object in __init__
StateOwner(i) == i

\* the fields of an instance after read(), its init_sensor having ended as i
ReadFields(b, i, in) ==
    IF ~i.ok THEN [b EXCEPT !.cal = i.cal]
    ELSE IF in.bus # "none" THEN [b EXCEPT !.cal = i.cal, !.initialized = TRUE]
    ELSE [b EXCEPT !.cal = i.cal, !.initialized = TRUE, !.t_fine_of = in.raw_temp]

\* the fields of an instance after calculate_iaq ended as q
IaqFields(b, q) ==
    [b EXCEPT !.gas_baseline = q.gas_baseline,
              !.burn_in_count = q.burn_in_count,
              !.gas_history = q.gas_history]

\* the samples and bus outcomes of InstSpec
InstReadInputs ==
    { [bus |-> "data", raw_temp |-> 500000], [bus |-> "none", raw_temp |-> 500000] }
InstGasArgs == {40 * Resolution}
InstHumidityArgs == {40, 100}

\* `Inst(i).read()`
InstRead(i) ==
    /\ \E fail \in (IF Inst(StateOwner(i)).initialized
                      THEN {"none"} ELSE NativeInitFailPoints),
          in \in InstReadInputs :
         \E o \in {StateOwner(i)} :
         \E r \in {InitSensor(Inst(o), CHIP_ID_BME680, fail)} :
         \E nb \in {ReadFields(Inst(o), r, in)} :
           /\ bme' = IF o = 1 THEN nb ELSE bme
           /\ bme2' = IF o = 2 THEN nb ELSE bme2
           /\ out' = [op |-> "read", inst |-> i,
                      returned |-> r.ok /\ in.bus = "none",
                      iaq |-> 0, accuracy |-> 0]
    /\ UNCHANGED <<node, dht, fan, oled, driver, gas_baseline, burn_in_count, gas_history,
                   bad_iaq_alarm, pc, hist>>

\* `Inst(i).calculate_iaq(gas, humidity)`
InstCalculateIaq(i) ==
    /\ Inst(StateOwner(i)).burn_in_count < MaxInstPolls
    /\ \E gas \in InstGasArgs, humidity \in InstHumidityArgs :
         \E o \in {StateOwner(i)} :
         \E q \in {CalculateIaq(Inst(o), gas, humidity)} :
         \E nb \in {IaqFields(Inst(o), q)} :
           /\ bme' = IF o = 1 THEN nb ELSE bme
           /\ bme2' = IF o = 2 THEN nb ELSE bme2
           /\ out' = [op |-> "calculate_iaq", inst |-> i, returned |-> TRUE,
                      iaq |-> q.iaq, accuracy |-> q.accuracy]
    /\ UNCHANGED <<node, dht, fan, oled, driver, gas_baseline, burn_in_count, gas_history,
                   bad_iaq_alarm, pc, hist>>

InstInit ==
    /\ node = "pizero"
    /\ dht = DhtInit
    /\ fan = FanInit
    /\ oled = OledInit
    /\ driver = NoDriver
    /\ gas_baseline = 0
    /\ burn_in_count = 0
    /\ gas_history = <<>>
    /\ bad_iaq_alarm = FALSE
    /\ bme = BmeInit
    /\ bme2 = BmeInit
    /\ pc = NoWorkers
    /\ out = [op |-> "none", inst |-> 0, returned |-> FALSE, iaq |-> 0, accuracy |-> 0]
    /\ hist = HistInit

InstNext ==
    \/ \E i \in Instances : InstRead(i)
    \/ \E i \in Instances : InstCalculateIaq(i)

InstSpec == InstInit /\ [][InstNext]_vars

(***************************************************************************)
(* Polls from several workers.  Under ConcSpec the host invokes the        *)
(* plugin's poll from several workers; a poll is taken in the steps of its *)
(* code: the measurement trigger, the read of the sample, and the update   *)
(* of the IAQ state.  `pc` holds each worker's position and the sample it  *)
(* carries.  The host's admission of a worker into poll is not part of the *)
(* plugin; it is modelled from the concurrency section of the              *)
(* specification.                                                          *)
(***************************************************************************)
NumWorkers == 2
\* polls that produce a reading, per run of ConcSpec
MaxConcPolls == 3

Workers == 1..NumWorkers
Idle == [at |-> "idle", gas |-> 0, humidity |-> 0]

\* mutant: the host admits a worker whenever that worker itself is idle
HostAdmits_Unserialized(w) == pc[w].at = "idle"

\* the host lets worker w enter poll only when no poll of the sensor is in
\* progress (one logical thread per sensor: polls are serialized)
HostAdmits(w) == \A v \in Workers : pc[v].at = "idle"

\* samples and bus outcomes of the read step
ConcInputs ==
    { [bus |-> "data", ready_at |-> 1, data_len |-> 17,
       d13 |-> 0, d14 |-> 48, hum |-> 40, raw_temp |-> 500000] }
    \cup
    { [bus |-> "none", ready_at |-> 1, data_len |-> 17,
       d13 |-> gb[1], d14 |-> gb[2], hum |-> 40, raw_temp |-> 500000] :
        gb \in {<<1, 48>>, <<4, 48>>} }

ConcOut(w, returned, iaq, accuracy) ==
    [op |-> "poll", worker |-> w, returned |-> returned,
     iaq |-> iaq, accuracy |-> accuracy]

\* poll up to `trigger_measurement()`: the lazy construction of the driver
\* and the write that starts the measurement
ConcTrigger(w) ==
    /\ HostAdmits(w)
    /\ pc[w].at = "idle"
    /\ burn_in_count < MaxConcPolls
    /\ driver' = IF driver.present THEN driver ELSE NewDriver(CalBusOk)
    /\ \E bus_ok \in BOOLEAN :
         IF bus_ok
           THEN /\ pc' = [pc EXCEPT ![w] = [Idle EXCEPT !.at = "triggered"]]
                /\ UNCHANGED out
           ELSE /\ pc' = pc              \* get_readings returns None
                /\ out' = ConcOut(w, FALSE, 0, 0)
    /\ UNCHANGED <<node, dht, fan, oled, gas_baseline, burn_in_count, gas_history,
                   bad_iaq_alarm, bme, bme2, hist>>

\* the rest of get_readings: status polling, data read and compensation
ConcRead(w) ==
    /\ pc[w].at = "triggered"
    /\ \E in \in ConcInputs :
         \E r \in {GetReadings(in)} :
           IF r.ok
             THEN /\ pc' = [pc EXCEPT ![w] = [at |-> "sampled", gas |-> r.gas,
                                             humidity |-> r.humidity]]
                  /\ driver' = [driver EXCEPT !.t_fine_of = r.t_fine_of]
                  /\ UNCHANGED out
             ELSE /\ pc' = [pc EXCEPT ![w] = Idle]
                  /\ out' = ConcOut(w, FALSE, 0, 0)
                  /\ UNCHANGED driver
    /\ UNCHANGED <<node, dht, fan, oled, gas_baseline, burn_in_count, gas_history,
                   bad_iaq_alarm, bme, bme2, hist>>

\* the IAQ update of poll on the sample the worker carries
ConcUpdate(w) ==
    /\ pc[w].at = "sampled"
    /\ \E q \in {PluginIaq(PluginGlobals, pc[w].gas, pc[w].humidity)} :
         /\ gas_baseline' = q.gas_baseline
         /\ burn_in_count' = q.burn_in_count
         /\ gas_history' = q.gas_history
         /\ bad_iaq_alarm' = q.bad_iaq_alarm
         /\ out' = ConcOut(w, TRUE, q.iaq, q.accuracy)
    /\ pc' = [pc EXCEPT ![w] = Idle]
    /\ UNCHANGED <<node, dht, fan, oled, driver, bme, bme2, hist>>

ConcInit ==
    /\ node = "pi4"
    /\ dht = DhtInit
    /\ fan = FanInit
    /\ oled = OledInit
    /\ driver = NoDriver
    /\ gas_baseline = 0
    /\ burn_in_count = 0
    /\ gas_history = <<>>
    /\ bad_iaq_alarm = FALSE
    /\ bme = BmeInit
    /\ bme2 = BmeInit
    /\ pc = [w \in Workers |-> Idle]
    /\ out = ConcOut(0, FALSE, 0, 0)
    /\ hist = HistInit

ConcNext ==
    \/ \E w \in Workers : ConcTrigger(w)
    \/ \E w \in Workers : ConcRead(w)
    \/ \E w \in Workers : ConcUpdate(w)

ConcSpec == ConcInit /\ [][ConcNext]_vars

(***************************************************************************)
(* Properties.                                                             *)
(***************************************************************************)
\* the IAQState of the running program
CurBaseline == IF node = "pi4" THEN gas_baseline ELSE bme.gas_baseline
CurCount == IF node = "pi4" THEN burn_in_count ELSE bme.burn_in_count
CurHistory == IF node = "pi4" THEN gas_history ELSE bme.gas_history
IaqState == <<CurBaseline, CurCount, CurHistory, bad_iaq_alarm>>

\* the last operation reported an IAQ reading
IaqReported == out.op \in {"poll", "calculate_iaq"} /\ out.returned
\* this step is an operation that reports an IAQ reading
IaqStep == hist'.readings = hist.readings + 1

\* C1: with burn-in threshold 12, each of the first 11 operations that
\* produce a reading reports iaq_score = 0 and accuracy = 0 (Calibrating);
\* the 12th and every later one is scored in Active (accuracy = 1).
C1_CalibrationGate ==
    IaqReported =>
        IF hist.readings <= 11
          THEN out.iaq = 0 /\ out.accuracy = 0 /\ out.phase = "Calibrating"
          ELSE out.accuracy = 1 /\ out.phase # "Calibrating"

\* the 12th reading, the first one scored in Active
C1_Witness ==
    IaqReported /\ hist.readings = 12 /\ out.accuracy = 1 /\ node = "pi4"

\* C2: the transition Calibrating -> Active is one-way.  Once a reading was
\* scored in Active, every later reading is (whatever its gas value, and
\* whatever failed polls lie in between), and burn_in_count never decreases.
C2_OneWay ==
    [][ /\ CurCount' >= CurCount
        /\ (hist.active_seen /\ IaqStep) => out'.accuracy = 1 ]_vars

\* a reading with gas = 0, after the engine went Active, scored in Active
C2_Witness ==
    /\ IaqReported /\ node = "pi4"
    /\ hist.readings > 12 /\ out.gas = 0 /\ out.accuracy = 1

\* C3: the audible alarm is edge-triggered.  A beep is issued only by a poll
\* whose score is above 200 while the alarm flag was inactive; a poll that
\* follows a reading above 200 with another one does not beep; and one
\* upward crossing of the score into the worst band gives exactly one raise.
C3_EdgeTriggered ==
    [][ (node = "pi4" /\ IaqStep) =>
          /\ out'.beep => (out'.iaq > 200 /\ ~bad_iaq_alarm)
          /\ (hist.prev_worst /\ out'.iaq > 200) => ~out'.beep
          /\ hist'.crossings = 1 => hist'.raises = 1 ]_vars

\* a second consecutive poll in the worst band, which did not beep
C3_Witness ==
    /\ node = "pi4" /\ IaqReported
    /\ out.iaq > 200 /\ out.alarm_before /\ ~out.beep
    /\ hist.raises = 1 /\ hist.crossings = 1

\* C4: the alarm has a deadband.  Once raised, the flag stays active through
\* every poll whose score is above 180 and is cleared only by a poll scored
\* at or below 180 (< 200); two raises are separated by such a poll.
C4_Deadband ==
    [][ node = "pi4" =>
          /\ (bad_iaq_alarm /\ IaqStep /\ out'.accuracy = 1 /\ out'.iaq > 180)
                => bad_iaq_alarm'
          /\ (bad_iaq_alarm /\ ~bad_iaq_alarm')
                => (IaqStep /\ out'.accuracy = 1 /\ out'.iaq <= 180)
          /\ (IaqStep /\ out'.beep /\ hist.raises > 0) => hist.low_since_raise
      ]_vars

\* the alarm is still active after a poll scored inside the deadband
C4_Witness ==
    /\ node = "pi4" /\ IaqReported /\ out.accuracy = 1
    /\ out.alarm_before /\ bad_iaq_alarm
    /\ out.iaq > 180 /\ out.iaq <= 200

C6_TimeoutIsFailure ==
    out.op = "poll" =>
        /\ out.status_reads <= 50
        /\ ~out.new_data => (~out.decoded /\ ~out.returned)

\* C7: if the chip-id register does not hold 0x61, initialization fails, no
\* calibration register is read and the operation produces no reading.
C7_UnexpectedDevice ==
    (out.init_run /\ out.chip_id # 97) =>
        /\ ~out.init_ok
        /\ \A k \in 1..Len(out.regs) : out.regs[k] = REG_CHIP_ID
        /\ ~out.returned

\* the humidity score of the running program
HumScoreOf(h) == IF node = "pi4" THEN PluginHumScore(h) ELSE NativeHumScore(h)

\* C8: every reading has iaq_score in 0..500 and accuracy in {0, 1}, with
\* accuracy = 0 only together with iaq_score = 0; in Active the gas score
\* lies in [0, 75], the humidity score lies in [0, 25] and is non-decreasing
\* in |humidity - 40|.
C8_Ranges ==
    IaqReported =>
        /\ out.iaq \in 0..500
        /\ out.accuracy \in {0, 1}
        /\ out.accuracy = 0 => out.iaq = 0
        /\ out.accuracy = 1 =>
             /\ FLe(FInt(0), out.gas_score) /\ FLe(out.gas_score, FInt(75))
             /\ FLe(FInt(0), out.hum_score) /\ FLe(out.hum_score, FInt(25))
             /\ \A h \in 0..100 :
                  /\ Abs(h - 40) <= out.hum_offset => FLe(HumScoreOf(h), out.hum_score)
                  /\ Abs(h - 40) >= out.hum_offset => FLe(out.hum_score, HumScoreOf(h))

\* an Active reading at the top of the humidity score, in the worst band
C8_Witness ==
    /\ IaqReported /\ out.accuracy = 1 /\ node = "pi4"
    /\ FEq(out.hum_score, FInt(25)) /\ out.iaq > 200

\* the composite (gas_score + hum_score) * k of the last reading, k = 3
Scaled == FScale(FAdd(out.gas_score, out.hum_score), 3)
Clamp(x, lo, hi) == IF x < lo THEN lo ELSE IF x > hi THEN hi ELSE x

\* C9 as claimed: in Active the score is the scaled composite rounded to the
\* nearest integer, then clamped to [0, 500].
C9_RoundsToNearest ==
    (IaqReported /\ out.accuracy = 1) =>
        \E k \in 0..500 :
            /\ 2 * Abs(Scaled.n - k * Scaled.d) <= Scaled.d
            /\ out.iaq = Clamp(k, 0, 500)

\* C9, amended: in Active the score is the scaled composite truncated to an
\* integer (int(), the floor of a non-negative value), then clamped.
C9_Truncates ==
    (IaqReported /\ out.accuracy = 1) =>
        out.iaq = Clamp(Scaled.n \div Scaled.d, 0, 500)

\* an Active reading whose scaled composite has a fraction of 1/2 or more
C9_Witness ==
    /\ IaqReported /\ out.accuracy = 1 /\ node = "pi4"
    /\ 2 * (Scaled.n % Scaled.d) >= Scaled.d

\* (1 - gas/baseline) * 75 clamped to [0, 75], and 0 from ratio 1 on
RatioScore(gas, b) ==
    IF gas >= b THEN FInt(0)
    ELSE LET x == Frac(75 * (b - gas), b) IN
         IF x.n < 0 THEN FInt(0) ELSE IF x.n > 75 * x.d THEN FInt(75) ELSE x

\* C10 as claimed: in Active, with baseline > 0, the gas score is the ratio
\* score for every gas >= 0 (75 for gas = 0); the neutral fallback is used
\* only when the baseline is 0.
C10_FallbackOnlyForZeroBaseline ==
    (IaqReported /\ out.accuracy = 1) =>
        /\ out.gas_score.d > 0
        /\ IF CurBaseline > 0
             THEN FEq(out.gas_score, RatioScore(out.gas, CurBaseline))
             ELSE FEq(out.gas_score, FInt(25))

\* C10, amended: in Active, with baseline > 0 and gas > 0 the gas score is
\* the ratio score; the neutral fallback 25 is used when the baseline is 0
\* or the gas reading is 0; no division by zero occurs.
C10_FallbackForZeroGasOrBaseline ==
    (IaqReported /\ out.accuracy = 1) =>
        /\ out.gas_score.d > 0
        /\ IF CurBaseline > 0 /\ out.gas > 0
             THEN FEq(out.gas_score, RatioScore(out.gas, CurBaseline))
             ELSE FEq(out.gas_score, FInt(25))

\* an Active reading with gas = 0 against a positive baseline
C10_Witness ==
    /\ IaqReported /\ out.accuracy = 1 /\ node = "pi4"
    /\ out.gas = 0 /\ CurBaseline > 0 /\ FEq(out.gas_score, FInt(25))

(***************************************************************************)
(* Properties of the decode functions (checked under DecodeSpec).          *)
(***************************************************************************)
\* the fields of the gas bytes, as the data sheet lays them out
GasValidBit == (out.b \div 32) % 2 = 1          \* bit 5 of data[14]
HeaterStableBit == (out.b \div 16) % 2 = 1      \* bit 4 of data[14]
RawGasCode == out.a * 4 + (out.b \div 64)        \* 10 bits
GasRangeIndex == out.b % 16

\* C11: the reported gas resistance is non-zero only if both status bits
\* (bit 5 gas_valid, bit 4 heater_stable) are set and the raw gas code is
\* > 0; otherwise it is exactly 0 and no division is attempted.
C11_GasSentinel ==
    (out.op = "gas" /\ out.done) =>
        /\ out.gas # 0 => (GasValidBit /\ HeaterStableBit /\ RawGasCode > 0)
        /\ (~GasValidBit \/ ~HeaterStableBit \/ RawGasCode = 0)
              => (out.gas = 0 /\ ~out.division.attempted)
        /\ out.division.attempted => out.division.divisor # 0

\* C12: for every raw gas code, range index and status byte the reported gas
\* resistance never exceeds the ceiling of 1000 kOhm.
C12_GasCeiling ==
    (out.op = "gas" /\ out.done) => out.gas <= 1000 * Resolution

\* C14: for all register bytes E1, E2, E3 the humidity pair is decoded by
\* the two-step unpack-then-rescale: h2_raw = (E1 << 4) | (E2 >> 4),
\* h1_raw = (E3 << 4) | (E2 & 0x0F), then h2 = h2_raw * 16 + (h1_raw mod 16)
\* and h1 = h1_raw / 16, the modulo taken of h1_raw before its rescale; both
\* drivers decode the same pair from the same bytes.
C14_HumPairDecode ==
    (out.op = "hum_pair" /\ out.done) =>
        LET h2_raw == out.a * 16 + (out.b \div 16)
            h1_raw == out.c * 16 + (out.b % 16)
        IN /\ out.pair.h2 = h2_raw * 16 + (h1_raw % 16)
           /\ out.pair.h1.d > 0
           /\ out.pair.h1.n * 16 = h1_raw * out.pair.h1.d

\* a pair decoded by the plugin where the low nibble of h1_raw differs from
\* the low nibble of h1_raw / 16, so that the order of the two steps shows
C14_Witness ==
    /\ out.op = "hum_pair" /\ out.done /\ node = "pi4"
    /\ out.b % 16 # out.c % 16
    /\ out.pair.h2 % 16 = out.b % 16

\* C15: the signed-8 decode yields v for v < 128 and v - 256 otherwise, the
\* signed-16 decode yields v for v < 32768 and v - 65536 otherwise, and
\* re-encoding the result modulo 256 (65536) reproduces v; every signed
\* decode of both drivers follows this rule.
C15_SignedDecode ==
    out.done =>
        /\ out.op = "signed8" =>
             /\ out.value = (IF out.a < 128 THEN out.a ELSE out.a - 256)
             /\ out.value % 256 = out.a
        /\ out.op = "signed16" =>
             /\ out.value = (IF out.a < 32768 THEN out.a ELSE out.a - 65536)
             /\ out.value % 65536 = out.a

\* the most negative 16-bit value, decoded by the plugin's helper
C15_Witness ==
    /\ out.done /\ out.op = "signed16" /\ node = "pi4"
    /\ out.a = 32768 /\ out.value = -32768

(***************************************************************************)
(* Properties of the drivers (checked under DriverSpec).                   *)
(***************************************************************************)
\* C13: every humidity value returned by the driver lies in [0, 100]: a
\* formula output above 100 is returned as exactly 100, one below 0 as
\* exactly 0, and a value inside the range is returned unchanged.
C13_HumidityClamp ==
    out.returned =>
        /\ out.humidity >= 0 /\ out.humidity <= 100
        /\ out.hum_formula > 100 => out.humidity = 100
        /\ out.hum_formula < 0 => out.humidity = 0
        /\ (out.hum_formula >= 0 /\ out.hum_formula <= 100)
              => out.humidity = out.hum_formula

\* a sample of the plugin whose formula output is below 0
C13_Witness ==
    node = "pi4" /\ out.returned /\ out.hum_formula < 0 /\ out.humidity = 0

\* C16: compensation is deterministic and history-free.  A data block read
\* again with the same CalibrationSet gives the (temperature, humidity,
\* pressure, gas) it gave the first time, whatever was polled in between:
\* the t_fine retained on the driver does not influence the result.
C16_Deterministic ==
    out.returned =>
        LET first == hist.seen[out.k] IN
        /\ first.has
        /\ out.temp = first.temp
        /\ out.humidity = first.humidity
        /\ out.pressure = first.pressure
        /\ out.gas = first.gas

\* a data block read again by the plugin, the driver retaining the t_fine
\* of a sample of another temperature, with the humidity not clamped
C16_Witness ==
    /\ node = "pi4" /\ out.returned /\ hist.again
    /\ out.hum_formula > 0 /\ out.hum_formula < 100

\* the driver of the running program is loaded, and its CalibrationSet
DriverLoaded == IF node = "pi4" THEN driver.present ELSE bme.initialized
DriverCal == IF node = "pi4" THEN driver.cal ELSE bme.cal
\* the coefficient groups the compensation of the running program uses
UsedGroups == IF node = "pi4" THEN {"t1", "t23", "h"} ELSE {"t1", "t23", "h", "p"}
\* every group used was read from the device, by one and the same load
CompleteDeviceSet(cal) ==
    \A g \in UsedGroups :
        /\ cal.src[g].from = "device"
        /\ \A g2 \in UsedGroups : cal.src[g2].load = cal.src[g].load

\* C17: once the CalibrationSet is loaded no poll or read changes any
\* coefficient, and compensation only ever runs on a complete set read from
\* the device by one initialization, never on a set that mixes coefficients
\* of a partial load with missing, earlier or default ones.
C17_CalibrationAtomic ==
    [][ /\ DriverLoaded => (DriverLoaded' /\ DriverCal' = DriverCal)
        /\ out'.returned => CompleteDeviceSet(DriverCal') ]_vars

(***************************************************************************)
(* Properties of two instances (checked under InstSpec).                   *)
(***************************************************************************)
\* the state of instance i that a poll of another instance must not touch
\* (the native class keeps no alarm flag)
OwnedState(i) ==
    <<Inst(i).gas_baseline, Inst(i).burn_in_count, Inst(i).gas_history,
      Inst(i).cal, Inst(i).initialized>>

InFlight == {w \in Workers : pc[w].at # "idle"}

C20_CalibratingBaseline ==
    (IaqReported /\ out.accuracy = 0) =>
        /\ CurBaseline = hist.calib_max
        /\ CurBaseline >= out.gas
        /\ ~out.beep
        /\ bad_iaq_alarm = out.alarm_before

\* a Calibrating poll of the plugin whose gas reading is below an earlier one
C20_Witness ==
    /\ IaqReported /\ out.accuracy = 0 /\ node = "pi4"
    /\ hist.readings >= 2 /\ out.gas > 0 /\ out.gas < CurBaseline

\* the gas values a sample of the plugin can decode to
PluginGasValues == { PluginGas(gb[1], gb[2]) : gb \in GasBytes }

\* C21: in Active, each poll updates the baseline before scoring: if gas >
\* baseline the baseline becomes gas; otherwise it becomes 0.995 * old +
\* 0.005 * gas (on the grid), which is neither above the old baseline nor
\* below the reading; the gas score is taken against the updated baseline.
C21_ActiveBaseline ==
    [][ (IaqStep /\ out'.accuracy = 1) =>
          /\ IF out'.gas > CurBaseline
               THEN CurBaseline' = out'.gas
               ELSE /\ 1000 * CurBaseline' <= 995 * CurBaseline + 5 * out'.gas
                    /\ 995 * CurBaseline + 5 * out'.gas < 1000 * (CurBaseline' + 1)
                    /\ CurBaseline' <= CurBaseline
                    /\ CurBaseline' >= out'.gas
          /\ (CurBaseline' > 0 /\ out'.gas > 0) =>
                FEq(out'.gas_score, RatioScore(out'.gas, CurBaseline')) ]_vars

\* an Active poll of the plugin below the baseline, which left the baseline
\* at a decayed value (no reading has it) above the reading
C21_Witness ==
    /\ IaqReported /\ out.accuracy = 1 /\ node = "pi4"
    /\ out.gas > 0 /\ out.gas < CurBaseline
    /\ CurBaseline \notin PluginGasValues

\* C27: in Active, a poll of the plugin whose gas reading is 0 gets the
\* neutral gas score 25, so its score is at most 150 for every humidity in
\* [0, 100]; it does not beep and leaves the alarm flag inactive (clearing
\* an active one), and the baseline still decays toward 0.
C27_ZeroGasPoll ==
    [][ (node = "pi4" /\ IaqStep /\ out'.accuracy = 1 /\ out'.gas = 0) =>
          /\ FEq(out'.gas_score, FInt(25))
          /\ out'.iaq <= 150
          /\ \A h \in 0..100 :
               PluginComposite(out'.gas_score, PluginHumScore(h)) <= 150
          /\ ~out'.beep
          /\ ~bad_iaq_alarm'
          /\ 1000 * gas_baseline' <= 995 * gas_baseline
          /\ 995 * gas_baseline < 1000 * (gas_baseline' + 1) ]_vars

\* an Active poll with gas = 0 at the top of the humidity score, which
\* cleared an active alarm and left a positive baseline
C27_Witness ==
    /\ node = "pi4" /\ IaqReported /\ out.accuracy = 1 /\ out.gas = 0
    /\ out.alarm_before /\ ~bad_iaq_alarm
    /\ out.iaq = 150 /\ gas_baseline > 0

(***************************************************************************)
(* The gas history.  Under HistorySpec a run is a sequence of polls of the *)
(* plugin (or of calculate_iaq calls of the native class); `hist` keeps    *)
(* every gas reading of the run in arrival order, and what the same code   *)
(* reports from the same state with other contents in gas_history.         *)
(***************************************************************************)
\* operations per run
MaxHistPolls == 13

\* the inputs of one poll: a failed read, or a sample with one of two gas
\* values and one of two humidities
HistPollInputs ==
    [bus : {"data"}, ready_at : {1}, data_len : {17},
     d13 : {0}, d14 : {48}, hum : {40}, raw_temp : RawTemps]
    \cup
    [bus : {"none"}, ready_at : {1}, data_len : {17},
     d13 : {1, 4}, d14 : {48}, hum : {40, 131}, raw_temp : RawTemps]

\* the arguments of one calculate_iaq call
HistGasArgs == {10 * Resolution, 40 * Resolution}
HistHumidityArgs == {40, 100}

\* other contents gas_history could have
OtherHistories ==
    { <<>>, <<0>>,
      <<1 * Resolution, 2 * Resolution, 3 * Resolution, 4 * Resolution,
        5 * Resolution>> }

\* what a poll reports (score, accuracy) and leaves (baseline, alarm)
Verdict(q) ==
    [iaq |-> q.iaq, accuracy |-> q.accuracy,
     gas_baseline |-> q.gas_baseline, bad_iaq_alarm |-> q.bad_iaq_alarm]

HistOut(op, returned, gas, q) ==
    [op |-> op, returned |-> returned, gas |-> gas,
     iaq |-> q.iaq, accuracy |-> q.accuracy]

HistRunInit == [polls |-> 0, gases |-> <<>>, other |-> {}]

\* Bme680Logic.poll, and the same IAQ code on the other histories
HistPluginPoll ==
    /\ node = "pi4"
    /\ hist.polls < MaxHistPolls
    /\ \E in \in HistPollInputs :
         \E drv \in {IF driver.present THEN driver ELSE NewDriver(CalBusOk)},
            r \in {GetReadings(in)} :
           IF r.ok
             THEN \E q \in {PluginIaq(PluginGlobals, r.gas, r.humidity)} :
                    /\ driver' = [drv EXCEPT !.t_fine_of = r.t_fine_of]
                    /\ gas_baseline' = q.gas_baseline
                    /\ burn_in_count' = q.burn_in_count
                    /\ gas_history' = q.gas_history
                    /\ bad_iaq_alarm' = q.bad_iaq_alarm
                    /\ out' = HistOut("poll", TRUE, r.gas, q)
                    /\ hist' = [polls |-> hist.polls + 1,
                                gases |-> Append(hist.gases, r.gas),
                                other |->
                                  { Verdict(PluginIaq(
                                      [PluginGlobals EXCEPT !.gas_history = h],
                                      r.gas, r.humidity)) : h \in OtherHistories }]
             ELSE \E q \in {PluginReadFailed(PluginGlobals)} :
                    /\ driver' = drv
                    /\ gas_baseline' = q.gas_baseline
                    /\ burn_in_count' = q.burn_in_count
                    /\ gas_history' = q.gas_history
                    /\ bad_iaq_alarm' = q.bad_iaq_alarm
                    /\ out' = HistOut("poll", FALSE, 0, [iaq |-> 0, accuracy |-> 0])
                    /\ hist' = [hist EXCEPT !.polls = @ + 1, !.other = {}]
    /\ UNCHANGED <<node, dht, fan, oled, bme, bme2, pc>>

\* BME680.calculate_iaq, and the same code on the other histories
HistCalculateIaq ==
    /\ node = "pizero"
    /\ hist.polls < MaxHistPolls
    /\ \E gas \in HistGasArgs, humidity \in HistHumidityArgs :
         \E q \in {CalculateIaq(bme, gas, humidity)} :
           /\ bme' = [bme EXCEPT !.gas_baseline = q.gas_baseline,
                                 !.burn_in_count = q.burn_in_count,
                                 !.gas_history = q.gas_history]
           /\ out' = HistOut("calculate_iaq", TRUE, gas, q)
           /\ hist' = [polls |-> hist.polls + 1,
                       gases |-> Append(hist.gases, gas),
                       other |->
                         { LET o == CalculateIaq([bme EXCEPT !.gas_history = h],
                                                 gas, humidity)
                           IN [iaq |-> o.iaq, accuracy |-> o.accuracy,
                               gas_baseline |-> o.gas_baseline,
                               bad_iaq_alarm |-> bad_iaq_alarm] :
                           h \in OtherHistories }]
    /\ UNCHANGED <<node, dht, fan, oled, driver, gas_baseline, burn_in_count,
                   gas_history, bad_iaq_alarm, bme2, pc>>

HistorySpecInit ==
    /\ node \in {"pi4", "pizero"}
    /\ dht = DhtInit
    /\ fan = FanInit
    /\ oled = OledInit
    /\ driver = NoDriver
    /\ gas_baseline = 0
    /\ burn_in_count = 0
    /\ gas_history = <<>>
    /\ bad_iaq_alarm = FALSE
    /\ bme = BmeInit
    /\ bme2 = BmeInit
    /\ pc = NoWorkers
    /\ out = HistOut("none", FALSE, 0, [iaq |-> 0, accuracy |-> 0])
    /\ hist = HistRunInit

HistoryNext ==
    \/ HistPluginPoll
    \/ HistCalculateIaq

HistorySpec == HistorySpecInit /\ [][HistoryNext]_vars

\* the last k entries of a sequence
LastOf(seq, k) == SubSeq(seq, Len(seq) - k + 1, Len(seq))

\* C22: gas_history never holds more than 5 entries; after the n-th poll
\* that produces a reading it is the last min(n, 5) gas readings in arrival
\* order; and the score, accuracy, baseline and alarm of a poll are what the
\* same poll gives with any other contents of gas_history.
C22_BoundedHistory ==
    /\ Len(CurHistory) <= 5
    /\ CurHistory = LastOf(hist.gases, Min(Len(hist.gases), 5))
    /\ \A o \in hist.other :
         o = [iaq |-> out.iaq, accuracy |-> out.accuracy,
              gas_baseline |-> CurBaseline, bad_iaq_alarm |-> bad_iaq_alarm]

\* an Active poll of the plugin, scored in the worst band with the alarm
\* raised, after more readings than the history holds, not all equal
C22_Witness ==
    /\ node = "pi4" /\ out.returned /\ out.accuracy = 1
    /\ out.iaq > 200 /\ bad_iaq_alarm
    /\ Len(hist.gases) > 5 /\ hist.other # {}
    /\ gas_history[1] # gas_history[5]

(***************************************************************************)
(* The two IAQ implementations side by side.  Under EquivSpec the plugin's *)
(* IAQ code (on the module globals) and the native calculate_iaq (on the   *)
(* instance `bme`) start from their initial states and are fed the same    *)
(* (gas, humidity) sample at every step.                                   *)
(***************************************************************************)
\* samples per run
MaxEquivPolls == 14

EquivGas == {0, 10 * Resolution, 40 * Resolution}
EquivHumidity == {0, 40, 55, 100}

\* what one implementation reported for the sample
Reported(q) == [iaq |-> q.iaq, accuracy |-> q.accuracy]

\* the sample, the two baselines before it, what the two implementations
\* reported for it and the gas scores they computed
EquivOut(gas, before, p, n) ==
    [op |-> "sample", gas |-> gas, before |-> before,
     plugin |-> Reported(p), native |-> Reported(n),
     gas_score |-> [plugin |-> p.gas_score, native |-> n.gas_score]]

\* lines 241-311 of poll and calculate_iaq, on one sample
EquivSample ==
    /\ node = "both"
    /\ hist.polls < MaxEquivPolls
    /\ \E gas \in EquivGas, humidity \in EquivHumidity :
         \E p \in {PluginIaq(PluginGlobals, gas, humidity)},
            n \in {CalculateIaq(bme, gas, humidity)} :
           /\ gas_baseline' = p.gas_baseline
           /\ burn_in_count' = p.burn_in_count
           /\ gas_history' = p.gas_history
           /\ bad_iaq_alarm' = p.bad_iaq_alarm
           /\ bme' = [bme EXCEPT !.gas_baseline = n.gas_baseline,
                                 !.burn_in_count = n.burn_in_count,
                                 !.gas_history = n.gas_history]
           /\ out' = EquivOut(gas,
                               [plugin |-> gas_baseline, native |-> bme.gas_baseline],
                               p, n)
           /\ hist' = [polls |-> hist.polls + 1]
    /\ UNCHANGED <<node, dht, fan, oled, driver, bme2, pc>>

EquivInit ==
    /\ node = "both"
    /\ dht = DhtInit
    /\ fan = FanInit
    /\ oled = OledInit
    /\ driver = NoDriver
    /\ gas_baseline = 0
    /\ burn_in_count = 0
    /\ gas_history = <<>>
    /\ bad_iaq_alarm = FALSE
    /\ bme = BmeInit
    /\ bme2 = BmeInit
    /\ pc = NoWorkers
    /\ out = [EquivOut(0, [plugin |-> 0, native |-> 0],
                        [iaq |-> 0, accuracy |-> 0, gas_score |-> FInt(0)],
                        [iaq |-> 0, accuracy |-> 0, gas_score |-> FInt(0)])
                 EXCEPT !.op = "none"]
    /\ hist = [polls |-> 0]

EquivNext == EquivSample

EquivSpec == EquivInit /\ [][EquivNext]_vars

\* C23: started from the same initial state and fed the same samples, the
\* native calculate_iaq and the plugin report the same score and accuracy
\* at every step and hold the same gas_baseline, burn_in_count and
\* gas_history after every step.
C23_SameIaq ==
    /\ out.plugin = out.native
    /\ gas_baseline = bme.gas_baseline
    /\ burn_in_count = bme.burn_in_count
    /\ gas_history = bme.gas_history

\* both are Active, on a decayed baseline, with a score in the worst band
C23_Witness ==
    /\ out.op = "sample" /\ out.native.accuracy = 1 /\ out.native.iaq > 200
    /\ bme.burn_in_count > 12 /\ out.gas > 0
    /\ bme.gas_baseline > out.gas /\ bme.gas_baseline \notin EquivGas

\* the baseline is at least the reading scored against it, the ratio score
\* is taken unclamped, and a reading above the baseline `was` scores 0
BaselineCovers(b, was, accuracy, gas_score) ==
    /\ b >= out.gas
    /\ (accuracy = 1 /\ b > 0 /\ out.gas > 0) =>
          FEq(gas_score, Frac(75 * (b - out.gas), b))
    /\ (accuracy = 1 /\ out.gas > was) => FEq(gas_score, FInt(0))

\* C26: after every poll that produces a reading (Calibrating or Active)
\* gas_baseline >= that poll's gas reading; so the ratio gas / baseline used
\* for scoring is never above 1, and a poll whose gas reading exceeds the
\* previous baseline gets gas score 0.
C26_BaselineCoversReading ==
    out.op = "sample" =>
        /\ BaselineCovers(gas_baseline, out.before.plugin,
                          out.plugin.accuracy, out.gas_score.plugin)
        /\ BaselineCovers(bme.gas_baseline, out.before.native,
                          out.native.accuracy, out.gas_score.native)

\* an Active sample above a positive baseline, which replaced it and
\* scored 0
C26_Witness ==
    /\ out.op = "sample" /\ out.plugin.accuracy = 1
    /\ out.before.plugin > 0 /\ out.gas > out.before.plugin
    /\ gas_baseline = out.gas /\ FEq(out.gas_score.plugin, FInt(0))

(***************************************************************************)
(* DHT22 plugin (src/plugins/dht22/app.py).  Temperatures are in tenths of *)
(* a degree C and humidities in tenths of a percent, the resolution of the *)
(* sensor; `dht` holds the four module-level alarm flags.  Under DhtSpec a *)
(* run is a sequence of polls.                                             *)
(***************************************************************************)
HIGH_ALARM == 300             \* 30.0
LOW_ALARM == 150              \* 15.0
DEADBAND == 20                \* 2.0
HIGH_HUMIDITY_ALARM == 700    \* 70.0
LOW_HUMIDITY_ALARM == 250     \* 25.0
HUMIDITY_DEADBAND == 50       \* 5.0
WARM_LED == 250               \* `elif temperature > 25.0`

\* mutant: no deadband, the alarm clears as soon as the temperature is
\* below the raising threshold
DhtHighAfter_NoDeadband(active, temperature) ==
    IF ~active
      THEN temperature >= HIGH_ALARM
      ELSE ~(temperature < HIGH_ALARM)

\* lines 74-79: high_alarm_active after the high-temperature logic
DhtHighAfter(active, temperature) ==
    IF ~active
      THEN (IF temperature >= HIGH_ALARM THEN TRUE ELSE active)
      ELSE (IF temperature <= HIGH_ALARM - DEADBAND THEN FALSE ELSE active)

\* mutant: the low alarm is latched, it is never cleared
DhtLowAfter_Latched(active, temperature) ==
    active \/ temperature <= LOW_ALARM

\* lines 82-87: low_alarm_active after the low-temperature logic
DhtLowAfter(active, temperature) ==
    IF ~active
      THEN (IF temperature <= LOW_ALARM THEN TRUE ELSE active)
      ELSE (IF temperature >= LOW_ALARM + DEADBAND THEN FALSE ELSE active)

\* lines 108-115: high_humidity_active after the high-humidity logic
DhtHighHumidityAfter(active, humidity) ==
    IF ~active
      THEN (IF humidity >= HIGH_HUMIDITY_ALARM THEN TRUE ELSE active)
      ELSE (IF humidity <= HIGH_HUMIDITY_ALARM - HUMIDITY_DEADBAND
              THEN FALSE ELSE active)

\* lines 117-124: low_humidity_active after the low-humidity logic
DhtLowHumidityAfter(active, humidity) ==
    IF ~active
      THEN (IF humidity <= LOW_HUMIDITY_ALARM THEN TRUE ELSE active)
      ELSE (IF humidity >= LOW_HUMIDITY_ALARM + HUMIDITY_DEADBAND
              THEN FALSE ELSE active)

\* lines 90-102: the colour of LED 1
DhtLed(high, low, temperature) ==
    IF high THEN "red"
    ELSE IF low THEN "blue"
    ELSE IF temperature > WARM_LED THEN "orange"
    ELSE "green"

\* the buzzer calls of a poll, in order: 3 beeps while the high-temperature
\* alarm is active, 2 when the high-humidity alarm is raised, 1 when the
\* low-humidity alarm is raised
DhtBeeps(d, high, humidity) ==
    (IF high THEN << <<3, 100, 100>> >> ELSE <<>>)
    \o (IF ~d.high_humidity_active /\ humidity >= HIGH_HUMIDITY_ALARM
          THEN << <<2, 200, 100>> >> ELSE <<>>)
    \o (IF ~d.low_humidity_active /\ humidity <= LOW_HUMIDITY_ALARM
          THEN << <<1, 300, 0>> >> ELSE <<>>)

\* what gpio_provider.read_dht22(4) gives: a (temperature, humidity) tuple,
\* something that is not a tuple, or an exception
DhtTemps == {149, 150, 151, 169, 170, 171, 279, 280, 281, 299, 300, 301}
DhtHums == {249, 250, 251, 299, 300, 301, 649, 650, 651, 699, 700, 701}
DhtResults ==
    [kind : {"tuple"}, temperature : DhtTemps, humidity : DhtHums]
    \cup [kind : {"error", "raise"}, temperature : {0}, humidity : {0}]

DhtOut(before, res, led, beeps) ==
    [op |-> "dht_poll", ok |-> res.kind = "tuple", kind |-> res.kind,
     temperature |-> res.temperature, humidity |-> res.humidity,
     before |-> before, led |-> led, beeps |-> beeps]

\* Dht22Logic.poll
DhtPoll ==
    /\ \E res \in DhtResults :
         IF res.kind = "tuple"
           THEN \E high \in {DhtHighAfter(dht.high_alarm_active, res.temperature)},
                   low \in {DhtLowAfter(dht.low_alarm_active, res.temperature)} :
                  /\ dht' = [high_alarm_active |-> high,
                             low_alarm_active |-> low,
                             high_humidity_active |->
                               DhtHighHumidityAfter(dht.high_humidity_active,
                                                    res.humidity),
                             low_humidity_active |->
                               DhtLowHumidityAfter(dht.low_humidity_active,
                                                   res.humidity)]
                  /\ out' = DhtOut(dht, res, DhtLed(high, low, res.temperature),
                                   DhtBeeps(dht, high, res.humidity))
           ELSE /\ UNCHANGED dht
                /\ out' = DhtOut(dht, res, "kept", <<>>)
    /\ UNCHANGED <<node, driver, gas_baseline, burn_in_count, gas_history,
                   bad_iaq_alarm, bme, bme2, pc, fan, oled, hist>>

DhtSpecInit ==
    /\ node = "pi4"
    /\ driver = NoDriver
    /\ gas_baseline = 0
    /\ burn_in_count = 0
    /\ gas_history = <<>>
    /\ bad_iaq_alarm = FALSE
    /\ bme = BmeInit
    /\ bme2 = BmeInit
    /\ pc = NoWorkers
    /\ dht = DhtInit
    /\ fan = FanInit
    /\ oled = OledInit
    /\ out = DhtOut(DhtInit, [kind |-> "none", temperature |-> 0, humidity |-> 0],
                    "kept", <<>>)
    /\ hist = HistInit

DhtNext == DhtPoll

DhtSpec == DhtSpecInit /\ [][DhtNext]_vars

\* flag f is raised only by a poll that read a value satisfying `on`,
\* cleared only by one that read a value satisfying `off`, and kept by a poll
\* that read a value strictly inside the band
Gated(f, on, off, inside) ==
    /\ (~dht[f] /\ dht'[f]) => (out'.ok /\ on)
    /\ (dht[f] /\ ~dht'[f]) => (out'.ok /\ off)
    /\ (out'.ok /\ inside) => dht'[f] = dht[f]

\* C24: each alarm is gated by its deadband: high temperature is raised
\* only at >= 30 and cleared only at <= 28; low temperature <= 15 / >= 17;
\* high humidity >= 70 / <= 65; low humidity <= 25 / >= 30; a poll with a
\* value strictly inside a band keeps the flag; a failed read changes none.
C24_DhtHysteresis ==
    [][ /\ Gated("high_alarm_active", out'.temperature >= 300,
                 out'.temperature <= 280,
                 out'.temperature > 280 /\ out'.temperature < 300)
        /\ Gated("low_alarm_active", out'.temperature <= 150,
                 out'.temperature >= 170,
                 out'.temperature > 150 /\ out'.temperature < 170)
        /\ Gated("high_humidity_active", out'.humidity >= 700,
                 out'.humidity <= 650,
                 out'.humidity > 650 /\ out'.humidity < 700)
        /\ Gated("low_humidity_active", out'.humidity <= 250,
                 out'.humidity >= 300,
                 out'.humidity > 250 /\ out'.humidity < 300)
        /\ ~out'.ok => dht' = dht ]_vars

\* a poll inside both upper bands (29.9 degC, 69.9 %) that kept both alarms
C24_Witness ==
    /\ out.ok /\ out.temperature = 299 /\ out.humidity = 699
    /\ out.before.high_alarm_active /\ dht.high_alarm_active
    /\ out.before.high_humidity_active /\ dht.high_humidity_active

\* C28: after every poll the high- and low-temperature flags are not both
\* active, and the high- and low-humidity flags are not both active.
C28_DhtExclusive ==
    /\ ~(dht.high_alarm_active /\ dht.low_alarm_active)
    /\ ~(dht.high_humidity_active /\ dht.low_humidity_active)

\* one poll that took the temperature from the low alarm to the high one
\* and the humidity from the high alarm to the low one
C28_Witness ==
    /\ out.ok
    /\ out.before.low_alarm_active /\ dht.high_alarm_active
    /\ out.before.high_humidity_active /\ dht.low_humidity_active

(***************************************************************************)
(* pi4-monitor plugin (src/plugins/pi4-monitor/app.py).  CPU temperatures  *)
(* are in tenths of a degree C; `fan` is the relay the host keeps behind   *)
(* fan_controller (get_fan_state reads it, set_fan writes it).  Under      *)
(* FanSpec a run is a sequence of polls.                                   *)
(***************************************************************************)
FAN_ON_THRESHOLD == 400       \* 40.0
FAN_OFF_THRESHOLD == 280      \* 28.0
CPU_CRITICAL == 750           \* `if cpu_temp > 75.0`
CPU_WARM == 600               \* `elif cpu_temp > 60.0`

\* lines 27-34: the set_fan calls of a poll, from the state read at line 24
FanCalls(current_fan_state, cpu_temp) ==
    IF cpu_temp >= FAN_ON_THRESHOLD /\ ~current_fan_state THEN <<TRUE>>
    ELSE IF cpu_temp <= FAN_OFF_THRESHOLD /\ current_fan_state THEN <<FALSE>>
    ELSE <<>>

\* the relay after the set_fan calls
FanAfter(f, calls) ==
    IF calls = <<>> THEN f ELSE [f EXCEPT !.on = calls[Len(calls)]]

\* the buzzer calls of a poll, in order: 3 long beeps with set_fan(True),
\* 2 short ones with set_fan(False), 2 more above the critical temperature
FanBeeps(calls, cpu_temp) ==
    (IF calls = <<TRUE>> THEN << <<3, 200, 100>> >>
     ELSE IF calls = <<FALSE>> THEN << <<2, 150, 150>> >>
     ELSE <<>>)
    \o (IF cpu_temp > CPU_CRITICAL THEN << <<2, 50, 50>> >> ELSE <<>>)

\* lines 40-49: the colour of LED 3
FanLed(cpu_temp) ==
    IF cpu_temp > CPU_CRITICAL THEN "red"
    ELSE IF cpu_temp > CPU_WARM THEN "orange"
    ELSE "green"

\* what gpio_provider.get_cpu_temp() gives: every tenth from 27.0 to 41.0,
\* and values around the LED thresholds
CpuTemps == 270..410 \cup {600, 601, 750, 751}

FanOut(before, cpu_temp, calls, beeps, led, fan_on) ==
    [op |-> "pi4_poll", before |-> before, cpu_temp |-> cpu_temp,
     set_fan |-> calls, beeps |-> beeps, led |-> led, fan_on |-> fan_on]

\* PiMonitorLogic.poll
FanPoll ==
    /\ \E cpu_temp \in CpuTemps :
         \E calls \in {FanCalls(fan.on, cpu_temp)} :
           /\ fan' = FanAfter(fan, calls)
           /\ out' = FanOut(fan.on, cpu_temp, calls, FanBeeps(calls, cpu_temp),
                            FanLed(cpu_temp), FanAfter(fan, calls).on)
    /\ UNCHANGED <<node, driver, gas_baseline, burn_in_count, gas_history,
                   bad_iaq_alarm, bme, bme2, pc, dht, oled, hist>>

FanSpecInit ==
    /\ node = "pi4"
    /\ driver = NoDriver
    /\ gas_baseline = 0
    /\ burn_in_count = 0
    /\ gas_history = <<>>
    /\ bad_iaq_alarm = FALSE
    /\ bme = BmeInit
    /\ bme2 = BmeInit
    /\ pc = NoWorkers
    /\ dht = DhtInit
    /\ fan = FanInit
    /\ oled = OledInit
    /\ out = [FanOut(FALSE, 0, <<>>, <<>>, "none", FALSE) EXCEPT !.op = "none"]
    /\ hist = HistInit

FanNext == FanPoll

FanSpec == FanSpecInit /\ [][FanNext]_vars

\* the start and stop beeps among the buzzer calls of the last poll
FanStartStopBeeps ==
    { k \in 1..Len(out.beeps) :
        out.beeps[k] \in { <<3, 200, 100>>, <<2, 150, 150>> } }

\* C25: the fan has a 2 degree hysteresis deadband: an idle fan is switched
\* on at a poll with CPU temperature >= 40, a running fan is switched off at
\* a poll with temperature <= 38 (2 degrees below the on threshold), between
\* the two the fan is left as it was; set_fan and the start/stop beep are
\* issued only by a poll that changes the fan state.
C25_FanDeadband ==
    out.op = "pi4_poll" =>
        /\ (~out.before /\ out.cpu_temp >= 400) => fan.on
        /\ (out.before /\ out.cpu_temp <= 380) => ~fan.on
        /\ (out.cpu_temp > 380 /\ out.cpu_temp < 400) => fan.on = out.before
        /\ (out.set_fan # <<>> \/ FanStartStopBeeps # {}) => fan.on # out.before

(***************************************************************************)
(* OLED plugin (src/plugins/oled/app.py).  `oled` holds the module globals *)
(* _initialized and _buffer.  A transfer is recorded with the hex string   *)
(* handed to i2c.transfer, as the sequence of its hex digits (0..15).  A   *)
(* transfer may raise; the plugin catches nothing, so the exception ends   *)
(* the function that was called.  Under OledSpec the functions of the      *)
(* module are called in any order (demo() is init_display, clear,          *)
(* set_pixel calls and update in a row).                                   *)
(***************************************************************************)
\* calls of update / init_display per run
MaxOledCalls == 3

OLED_ADDR == 60               \* 0x3C
CHUNK_SIZE == 128
CTL_COMMAND == 0              \* `format(0x00, '02x')`
CTL_DATA == 64                \* `format(0x40, '02x')`

\* init_cmds of init_display
InitCmds ==
    << 174,                   \* SSD1306_DISPLAYOFF 0xAE
       32, 0,                 \* SSD1306_MEMORYMODE 0x20, 0x00
       BitOr(64, 0),          \* SSD1306_SETSTARTLINE | 0x00
       161,                   \* 0xA1
       200,                   \* 0xC8
       168, 63,               \* 0xA8, 0x3F
       211, 0,                \* 0xD3, 0x00
       213, 128,              \* 0xD5, 0x80
       217, 241,              \* 0xD9, 0xF1
       218, 18,               \* 0xDA, 0x12
       219, 64,               \* 0xDB, 0x40
       141, 20,               \* 0x8D, 0x14
       166,                   \* SSD1306_NORMALDISPLAY 0xA6
       175 >>                 \* SSD1306_DISPLAYON 0xAF

\* the commands update() sends ahead of the data: SSD1306_COLUMNADDR, 0,
\* OLED_WIDTH - 1, SSD1306_PAGEADDR, 0, 7
WindowCmds == << 33, 0, OLED_WIDTH - 1, 34, 0, 7 >>

\* format(b, '02x'): the two hex digits of a byte
Hex2(b) == << b \div 16, b % 16 >>

\* bytes.hex(): two digits per byte, in order
HexOf(bytes) ==
    [k \in 1..(2 * Len(bytes)) |->
        IF k % 2 = 1 THEN bytes[(k + 1) \div 2] \div 16
                     ELSE bytes[k \div 2] % 16]

\* i2c.transfer(OLED_ADDR, hex, 0)
Transfer(hex) == [addr |-> OLED_ADDR, hex |-> hex, read_len |-> 0]

\* _write_cmd
WriteCmd(cmd) == Transfer(Hex2(CTL_COMMAND) \o Hex2(cmd))

\* _write_data
WriteData(data) == Transfer(Hex2(CTL_DATA) \o HexOf(data))

\* _buffer[i]
ByteAt(buf, i) == IF i \in DOMAIN buf THEN buf[i] ELSE 0

\* _buffer[i] = v
SetByte(buf, i, v) ==
    LET dom == IF v = 0 THEN DOMAIN buf \ {i} ELSE DOMAIN buf \cup {i} IN
    [j \in dom |-> IF j = i THEN v ELSE buf[j]]

\* bytes(_buffer[i:j])
Slice(buf, i, j) ==
    [k \in 1..(Min(j, BufferLen) - i) |-> ByteAt(buf, i + k - 1)]

\* the transfers of `for cmd in init_cmds: _write_cmd(cmd)`
InitWrites == [k \in 1..Len(InitCmds) |-> WriteCmd(InitCmds[k])]

\* the transfers of the six _write_cmd calls of update()
WindowWrites == [k \in 1..Len(WindowCmds) |-> WriteCmd(WindowCmds[k])]

\* the transfers of `for i in range(0, len(_buffer), CHUNK_SIZE)`
DataWrites(buf) ==
    [k \in 1..((BufferLen + CHUNK_SIZE - 1) \div CHUNK_SIZE) |->
        WriteData(Slice(buf, (k - 1) * CHUNK_SIZE, k * CHUNK_SIZE))]

\* the transfers of `plan` that are made when transfer number f raises
\* (f = 0, or f beyond the plan: none raises)
Attempt(plan, f) ==
    IF f \in 1..Len(plan)
      THEN [sent |-> SubSeq(plan, 1, f - 1), raised |-> TRUE]
      ELSE [sent |-> plan, raised |-> FALSE]

\* mutant: the flag is set before the commands are sent
InitDisplayFlag_SetFirst(was, completed) == TRUE

\* _initialized after init_display: `_initialized = True` follows the loop
InitDisplayFlag(was, completed) == IF completed THEN TRUE ELSE was

\* init_display(), transfer f raising
InitDisplay(o, f) ==
    LET a == Attempt(InitWrites, f) IN
    [oled |-> [o EXCEPT !.initialized = InitDisplayFlag(o.initialized, ~a.raised)],
     sent |-> a.sent, raised |-> a.raised]

\* update(), transfer f raising
Update(o, f) ==
    LET i == IF ~o.initialized THEN InitDisplay(o, f)
             ELSE [oled |-> o, sent |-> <<>>, raised |-> FALSE]
    IN
    IF i.raised THEN i
    ELSE LET rest == Attempt(WindowWrites \o DataWrites(i.oled.buffer),
                             IF f = 0 THEN 0 ELSE Max(f - Len(i.sent), 0))
         IN [oled |-> i.oled, sent |-> i.sent \o rest.sent, raised |-> rest.raised]

\* set_pixel(x, y, color)
SetPixel(buf, x, y, color) ==
    IF x < 0 \/ x >= OLED_WIDTH \/ y < 0 \/ y >= OLED_HEIGHT THEN buf
    ELSE LET page == y \div 8
             bit == Shl(1, y % 8)
             index == x + page * OLED_WIDTH
         IN SetByte(buf, index,
                    IF color THEN BitOr(ByteAt(buf, index), bit)
                             ELSE BitAnd(ByteAt(buf, index), 255 - bit))

\* the transfer that raises, by its number within the call (0: none)
OledFailAt == {0, 1, 12, 22, 23, 30, 36}

\* arguments of set_pixel: the two corners, a pixel cleared, and
\* coordinates off the display
OledPixels ==
    { <<0, 0, TRUE>>, <<127, 63, TRUE>>, <<0, 0, FALSE>>,
      <<128, 0, TRUE>>, <<5, -1, TRUE>> }

\* a transfer as the display sees it: the control byte, and the command
\* byte of a command or the number of data bytes of a data write
OnBus(t) ==
    LET ctl == t.hex[1] * 16 + t.hex[2] IN
    << ctl, IF ctl = CTL_COMMAND THEN t.hex[3] * 16 + t.hex[4]
                                 ELSE (Len(t.hex) - 2) \div 2 >>

OledOut(op, before, r) ==
    [op |-> op, before |-> before, sent |-> r.sent, raised |-> r.raised]

OledHistInit == [calls |-> 0, bus |-> <<>>]

OledHistAfter(h, r) ==
    [calls |-> h.calls + 1,
     bus |-> h.bus \o [k \in 1..Len(r.sent) |-> OnBus(r.sent[k])]]

OledUpdate ==
    /\ hist.calls < MaxOledCalls
    /\ \E f \in OledFailAt :
         \E r \in {Update(oled, f)} :
           /\ oled' = r.oled
           /\ out' = OledOut("update", oled.initialized, r)
           /\ hist' = OledHistAfter(hist, r)
    /\ UNCHANGED <<node, driver, gas_baseline, burn_in_count, gas_history,
                   bad_iaq_alarm, bme, bme2, pc, dht, fan>>

OledInitDisplay ==
    /\ hist.calls < MaxOledCalls
    /\ \E f \in OledFailAt :
         \E r \in {InitDisplay(oled, f)} :
           /\ oled' = r.oled
           /\ out' = OledOut("init_display", oled.initialized, r)
           /\ hist' = OledHistAfter(hist, r)
    /\ UNCHANGED <<node, driver, gas_baseline, burn_in_count, gas_history,
                   bad_iaq_alarm, bme, bme2, pc, dht, fan>>

NoTransfers == [sent |-> <<>>, raised |-> FALSE]

\* clear()
OledClear ==
    /\ oled' = [oled EXCEPT !.buffer = ZeroBuffer]
    /\ out' = OledOut("clear", oled.initialized, NoTransfers)
    /\ UNCHANGED <<node, driver, gas_baseline, burn_in_count, gas_history,
                   bad_iaq_alarm, bme, bme2, pc, dht, fan, hist>>

\* set_pixel(x, y, color)
OledSetPixel ==
    /\ \E px \in OledPixels :
         oled' = [oled EXCEPT !.buffer = SetPixel(@, px[1], px[2], px[3])]
    /\ out' = OledOut("set_pixel", oled.initialized, NoTransfers)
    /\ UNCHANGED <<node, driver, gas_baseline, burn_in_count, gas_history,
                   bad_iaq_alarm, bme, bme2, pc, dht, fan, hist>>

OledSpecInit ==
    /\ node = "pi4"
    /\ driver = NoDriver
    /\ gas_baseline = 0
    /\ burn_in_count = 0
    /\ gas_history = <<>>
    /\ bad_iaq_alarm = FALSE
    /\ bme = BmeInit
    /\ bme2 = BmeInit
    /\ pc = NoWorkers
    /\ dht = DhtInit
    /\ fan = FanInit
    /\ oled = OledInit
    /\ out = OledOut("none", FALSE, NoTransfers)
    /\ hist = OledHistInit

OledNext ==
    \/ OledUpdate
    \/ OledInitDisplay
    \/ OledClear
    \/ OledSetPixel

OledSpec == OledSpecInit /\ [][OledNext]_vars

\* the bytes a hex string denotes
BytesOf(hex) == [k \in 1..(Len(hex) \div 2) |-> hex[2 * k - 1] * 16 + hex[2 * k]]

\* transfer t is the data write of the 128 buffer bytes from index `from`
IsChunk(t, from) ==
    LET b == BytesOf(t.hex) IN
    /\ Len(b) = 1 + 128
    /\ b[1] = 64
    /\ \A m \in 1..128 : b[m + 1] = ByteAt(oled.buffer, from + m - 1)

\* position j of the bus history starts a complete init sequence
InitSentAt(j) ==
    /\ j >= 1 /\ j + Len(InitCmds) - 1 <= Len(hist.bus)
    /\ \A m \in 1..Len(InitCmds) : hist.bus[j + m - 1] = <<0, InitCmds[m]>>

\* C29: no data write is sent to the display before the complete init
\* command sequence has been sent; update() runs init_display first when the
\* display is not initialized and does not send the init sequence again on
\* later calls; every call sends the address-window commands and then the
\* whole 1024-byte buffer as 8 consecutive 128-byte chunks in buffer order
\* (a call ended by a raising transfer sends a prefix of that).
C29_InitBeforeData ==
    /\ \A k \in 1..Len(hist.bus) :
         hist.bus[k][1] = 64 =>
            \E j \in 1..k : j + Len(InitCmds) - 1 < k /\ InitSentAt(j)
    /\ out.op = "update" =>
         LET n0 == IF out.before THEN 0 ELSE Len(InitCmds) IN
         /\ \A k \in 1..Len(out.sent) :
              /\ out.sent[k].addr = 60
              /\ k <= n0 => BytesOf(out.sent[k].hex) = <<0, InitCmds[k]>>
              /\ (n0 < k /\ k <= n0 + 6) =>
                    BytesOf(out.sent[k].hex) =
                        <<0, <<33, 0, 127, 34, 0, 7>>[k - n0]>>
              /\ k > n0 + 6 => IsChunk(out.sent[k], (k - n0 - 7) * 128)
         /\ ~out.raised => (Len(out.sent) = n0 + 6 + 8 /\ oled.initialized)
         /\ out.raised => Len(out.sent) < n0 + 6 + 8

\* a later update that sent the window commands and the eight chunks of a
\* buffer with both corner pixels set, without the init sequence, after an
\* earlier call had been ended inside the init sequence
C29_Witness ==
    /\ out.op = "update" /\ out.before /\ ~out.raised
    /\ Len(out.sent) = 14
    /\ Len(hist.bus) > 14 + Len(InitCmds) /\ ~InitSentAt(1)
    /\ DOMAIN oled.buffer = {0, 1023}

(***************************************************************************)
(* Progress of the calibration.  Under LiveSpec the host keeps polling the *)
(* plugin; a poll either gets a sample from the driver or fails, and polls *)
(* that get a sample keep occurring (weak fairness of LivePollReading, the *)
(* hypothesis that reads succeed again and again).  `hist` records whether *)
(* a poll has failed.                                                      *)
(***************************************************************************)
\* polls that produce a reading, per run
MaxLivePolls == 13

\* the inputs of one poll: bus failures, a short data block, a status bit
\* that is never set, or a sample
LivePollInputs ==
    [bus : {"trigger", "data"}, ready_at : {1}, data_len : {17},
     d13 : {0}, d14 : {48}, hum : {40}, raw_temp : RawTemps]
    \cup
    [bus : {"none"}, ready_at : {1}, data_len : {14},
     d13 : {0}, d14 : {48}, hum : {40}, raw_temp : RawTemps]
    \cup
    [bus : {"none"}, ready_at : {1, STATUS_ATTEMPTS + 1}, data_len : {17},
     d13 : {0, 4}, d14 : {48}, hum : {40, 131}, raw_temp : RawTemps]

\* poll, the driver returning a sample
LivePollReading ==
    /\ node = "pi4"
    /\ burn_in_count < MaxLivePolls
    /\ \E in \in LivePollInputs :
         \E drv \in {IF driver.present THEN driver ELSE NewDriver(CalBusOk)},
            r \in {GetReadings(in)} :
           /\ r.ok
           /\ \E q \in {PluginIaq(PluginGlobals, r.gas, r.humidity)} :
                /\ driver' = [drv EXCEPT !.t_fine_of = r.t_fine_of]
                /\ gas_baseline' = q.gas_baseline
                /\ burn_in_count' = q.burn_in_count
                /\ gas_history' = q.gas_history
                /\ bad_iaq_alarm' = q.bad_iaq_alarm
                /\ out' = HistOut("poll", TRUE, r.gas, q)
    /\ UNCHANGED <<node, dht, fan, oled, bme, bme2, pc, hist>>

\* poll, the driver returning None
LivePollFailed ==
    /\ node = "pi4"
    /\ \E in \in LivePollInputs :
         \E drv \in {IF driver.present THEN driver ELSE NewDriver(CalBusOk)},
            r \in {GetReadings(in)} :
           /\ ~r.ok
           /\ \E q \in {PluginReadFailed(PluginGlobals)} :
                /\ driver' = drv
                /\ gas_baseline' = q.gas_baseline
                /\ burn_in_count' = q.burn_in_count
                /\ gas_history' = q.gas_history
                /\ bad_iaq_alarm' = q.bad_iaq_alarm
                /\ out' = HistOut("poll", FALSE, 0, [iaq |-> 0, accuracy |-> 0])
    /\ hist' = [failed |-> TRUE]
    /\ UNCHANGED <<node, dht, fan, oled, bme, bme2, pc>>

LiveInit ==
    /\ node = "pi4"
    /\ dht = DhtInit
    /\ fan = FanInit
    /\ oled = OledInit
    /\ driver = NoDriver
    /\ gas_baseline = 0
    /\ burn_in_count = 0
    /\ gas_history = <<>>
    /\ bad_iaq_alarm = FALSE
    /\ bme = BmeInit
    /\ bme2 = BmeInit
    /\ pc = NoWorkers
    /\ out = HistOut("none", FALSE, 0, [iaq |-> 0, accuracy |-> 0])
    /\ hist = [failed |-> FALSE]

LiveNext ==
    \/ LivePollReading
    \/ LivePollFailed

LiveSpec == LiveInit /\ [][LiveNext]_vars /\ WF_vars(LivePollReading)

\* C30: if reads keep succeeding, the engine eventually leaves Calibrating
\* and reports an Active reading (accuracy = 1); failed polls in between
\* neither reset nor block this: burn_in_count advances by exactly one on
\* each poll that produces a reading and by zero on each poll that does not.
C30_EventuallyActive ==
    /\ <>(out.returned /\ out.accuracy = 1)
    /\ [][ /\ out'.returned => burn_in_count' = burn_in_count + 1
           /\ ~out'.returned => burn_in_count' = burn_in_count ]_vars

\* the first Active reading, reported after a poll had failed
C30_Witness ==
    /\ out.returned /\ out.accuracy = 1 /\ burn_in_count = 12
    /\ hist.failed

====
